---------------------------- MODULE Spec2Model ----------------------------
(***************************************************************************)
(* A model of tools/json_schema_compiler/h_generator.py: the generator of  *)
(* the C++ header of one API namespace.                                    *)
(*                                                                         *)
(* A Code object is modelled as the sequence of its non-blank lines; a     *)
(* line is a record [t, n, a]: t is the kind of line (which Append call    *)
(* wrote it), n the identifier substituted in it and a the list of the     *)
(* remaining arguments (parameter list, modifiers).  Descriptions are      *)
(* empty in the modelled inputs, so no description comment is written.     *)
(* A block that is closed without a closing text is kept as a line of      *)
(* kind "eblock", so that the nesting of the blocks can be read off.       *)
(* A Python exception is modelled as a result that is not ok.              *)
(*                                                                         *)
(* The second part is a model of py_utils/cloud_storage.py: the wrapper of *)
(* gsutil, with the files it reads and writes.                             *)
(***************************************************************************)
EXTENDS Naturals, Sequences, FiniteSets

VARIABLES ns, call, pc, idx, stack, dependency_order, out, err

\* cloud_storage.py: the environment variable, the platform, the local
\* files, the gsutil processes started so far, and the call in progress
\* with its position, its locals and its result.
VARIABLES environ, platform, files, popen, cs_call, cs_pc, cs_local, cs_ret

\* cloud_storage.py, _FileLock: the position of every process, the
\* descriptor each holds of the pseudo lock file, the holder of the lock on
\* the global lock file, the file at the pseudo lock path, and the holder of
\* the lock on each file.  A file is known by its number; 0 stands for no
\* file, no descriptor and no holder.
VARIABLES lock_pc, pseudo_lock_fd, global_file, pseudo_lock_path, file_lock

\* The list pseudo_lock_fd_return of every process, what its last attempt
\* to acquire returned ("" while none has returned), and how the body of
\* its with statement ended ("" while it has not).
VARIABLES pseudo_lock_fd_return, attempt_ret, body_exit

lock_vars ==
  <<lock_pc, pseudo_lock_fd, global_file, pseudo_lock_path, file_lock,
    pseudo_lock_fd_return, attempt_ret, body_exit>>

cs_vars ==
  <<environ, platform, files, popen, cs_call, cs_pc, cs_local, cs_ret,
    lock_vars>>

vars == <<ns, call, pc, idx, stack, dependency_order, out, err, cs_vars>>

(***************************************************************************)
(* Bounds of the model.                                                    *)
(***************************************************************************)
MaxTypes == 3
MaxRefs == 2
MaxEnumValues == 2
MaxFields == 2
MaxProcs == 2

(***************************************************************************)
(* Names.  A name is a pair <<namespace, identifier>>, the namespace being *)
(* "" for a name that is not qualified.                                    *)
(***************************************************************************)
ThisNamespace == "ns"
OtherNamespace == "other"

TypeIds == <<"A", "B", "C", "D", "E">>
FieldIds == <<"x", "y", "z", "w">>
EnumIds == <<"Foo", "Bar", "Baz", "Qux">>
FunctionIds == <<"get", "sendMessage", "set">>
EventIds == <<"onA", "onB", "onC">>

QName(namespace, id) == <<namespace, id>>

Range(seq) == {seq[i] : i \in 1..Len(seq)}

\* schema_util.GetNamespace: the namespace part of a qualified name.
GetNamespace(name) == name[1]

\* schema_util.StripNamespace: the identifier without its namespace.
StripNamespace(name) == name[2]

\* cpp_util.Classname: the identifier with its first letter in upper case.
Classname(id) ==
  CASE id = "x" -> "X"
    [] id = "y" -> "Y"
    [] id = "z" -> "Z"
    [] id = "w" -> "W"
    [] id = "get" -> "Get"
    [] id = "set" -> "Set"
    [] id = "sendMessage" -> "SendMessage"
    [] id = "onA" -> "OnA"
    [] id = "onB" -> "OnB"
    [] id = "onC" -> "OnC"
    [] OTHER -> id

\* The type helper's enum constant of a declared value.
EnumConstant(value) ==
  CASE value = "Foo" -> "FOO"
    [] value = "Bar" -> "BAR"
    [] value = "Baz" -> "BAZ"
    [] value = "Qux" -> "QUX"
    [] OTHER -> value

(***************************************************************************)
(* The namespace model (model.py): Type, Property, Function, Event.        *)
(* An optional member is a sequence of length at most one.                 *)
(***************************************************************************)
Origin(from_json, from_client, from_manifest_keys) ==
  [from_json |-> from_json, from_client |-> from_client,
   from_manifest_keys |-> from_manifest_keys]

Type(name, property_type) ==
  [name |-> name, unix_name |-> StripNamespace(name),
   property_type |-> property_type,
   ref_type |-> QName("", ""), item_type |-> <<>>, enum_values |-> <<>>,
   properties |-> <<>>, choices |-> <<>>, additional_properties |-> <<>>,
   functions |-> <<>>, origin |-> Origin(FALSE, FALSE, FALSE),
   is_root_manifest |-> FALSE]

Property(id, type_, optional) ==
  [name |-> id, unix_name |-> id, type_ |-> type_, optional |-> optional]

Function(id, params, returns_async) ==
  [name |-> id, params |-> params, returns_async |-> returns_async]

Event(id, params) == [name |-> id, params |-> params]

RefType(name, ref_type) == [Type(name, "REF") EXCEPT !.ref_type = ref_type]

EnumType(name, values) == [Type(name, "ENUM") EXCEPT !.enum_values = values]

ArrayType(name, item_type) ==
  [Type(name, "ARRAY") EXCEPT !.item_type = <<item_type>>]

ObjectType(name, properties, origin) ==
  [Type(name, "OBJECT") EXCEPT !.properties = properties, !.origin = origin]

ChoicesType(name, choices, origin) ==
  [Type(name, "CHOICES") EXCEPT !.choices = choices, !.origin = origin]

(***************************************************************************)
(* Code objects and results.                                               *)
(***************************************************************************)
Line(t, n, a) == [t |-> t, n |-> n, a |-> a]

Ok(code) == [ok |-> TRUE, code |-> code, err |-> ""]

Raise(e) == [ok |-> FALSE, code |-> <<>>, err |-> e]

\* r1 followed by r2: the first exception raised ends the computation.
Then(r1, r2) ==
  IF ~r1.ok THEN r1
  ELSE IF ~r2.ok THEN r2
  ELSE Ok(r1.code \o r2.code)

\* The _Generator object of a namespace.
Generator(namespace) ==
  [namespace |-> namespace,
   generate_error_messages |-> namespace.compiler_options.generate_error_messages,
   modernised_enums |-> namespace.compiler_options.modernised_enums]


(***************************************************************************)
(* The emitters of _Generator.                                             *)
(***************************************************************************)
\* The type helper's C++ type of a type is the generic value exactly for ANY.
IsGenericValue(type_) == type_.property_type = "ANY"

\* _GenerateParams: the parameter list, with the error parameter appended
\* when error messages are generated.  generate_error_messages is <<>> for
\* None, and then the generator's option decides.
_GenerateParams(self, params, generate_error_messages, error_as_ptr) ==
  LET gen == IF generate_error_messages = <<>>
             THEN self.generate_error_messages
             ELSE generate_error_messages[1]
  IN IF gen
     THEN IF error_as_ptr
          THEN params \o <<"std::u16string* error">>
          ELSE params \o <<"std::u16string& error">>
     ELSE params

\* _GenerateEnumDeclaration: current_enum_string is bound by the loop over
\* the declared values only, so reading it after a loop over no value
\* raises UnboundLocalError.
_GenerateEnumDeclaration(self, enum_name, type_) ==
  LET values == type_.enum_values
      open == Line("enum", enum_name,
                   IF self.modernised_enums THEN <<"class">> ELSE <<>>)
      none == Line("enum_member", "NONE", <<"0">>)
      members == [i \in 1..Len(values) |->
                    Line("enum_member", EnumConstant(values[i]), <<>>)]
  IN IF values = <<>>
     THEN Raise("UnboundLocalError")
     ELSE LET current_enum_string == EnumConstant(values[Len(values)])
              last == IF self.modernised_enums
                      THEN Line("enum_member", "kMaxValue",
                                <<current_enum_string>>)
                      ELSE Line("enum_member", "LAST",
                                <<current_enum_string>>)
          IN Ok(<<open, none>> \o members \o <<last, Line("end_enum", enum_name, <<>>)>>)

\* _GenerateFields: one field declaration per property.
_GenerateFields(self, props) ==
  [i \in 1..Len(props) |->
     Line("field", props[i].unix_name,
          IF props[i].optional THEN <<"optional">> ELSE <<>>)]

\* _GenerateManifestKeyConstants: one string constant per property.
_GenerateManifestKeyConstants(self, properties) ==
  [i \in 1..Len(properties) |->
     Line("manifest_key_constant", properties[i].unix_name,
          <<properties[i].name>>)]

\* _GenerateParseFromDictionary: the root manifest type's method takes no
\* key and no reversed error path.
_GenerateParseFromDictionary(self, type_, classname) ==
  LET params == IF type_.is_root_manifest
                THEN <<"const base::Value::Dict& root_dict", "out",
                       "std::u16string& error">>
                ELSE <<"const base::Value::Dict& root_dict",
                       "base::StringPiece key", "out",
                       "std::u16string& error",
                       "std::vector<base::StringPiece>& error_path_reversed">>
  IN <<Line("comment", "ParseFromDictionary", <<>>),
       Line("ParseFromDictionary", classname,
            _GenerateParams(self, params, <<FALSE>>, FALSE))>>

\* _GenerateEventNameConstant.
_GenerateEventNameConstant(self, event) ==
  <<Line("kEventName", event.name, <<self.namespace.name>>)>>

PropertyTypes(props) == [i \in 1..Len(props) |-> props[i].type_]

RECURSIVE _GenerateType(_, _, _, _)
RECURSIVE _GenerateTypes(_, _, _, _)
RECURSIVE _GenerateFunction(_, _)
RECURSIVE _GenerateFunctions(_, _)
RECURSIVE _GenerateFunctionParams(_, _)
RECURSIVE _GenerateFunctionResults(_, _)
RECURSIVE _GenerateAsyncResponseArguments(_, _)

\* _GenerateTypes with the aliases asked for at every level.
_GenerateTypes_AlwaysTypedefs(self, types, is_toplevel, generate_typedefs) ==
  IF types = <<>>
  THEN Ok(<<>>)
  ELSE Then(_GenerateType(self, Head(types), is_toplevel, TRUE),
            _GenerateTypes(self, Tail(types), is_toplevel, TRUE))

\* _GenerateTypes: the declarations of the types, in their order.
_GenerateTypes(self, types, is_toplevel, generate_typedefs) ==
  IF types = <<>>
  THEN Ok(<<>>)
  ELSE Then(_GenerateType(self, Head(types), is_toplevel, generate_typedefs),
            _GenerateTypes(self, Tail(types), is_toplevel, generate_typedefs))

\* StructHead with the move operations declared before the deleted copies.
StructHead_MoveFirst(classname) ==
  <<Line("struct", classname, <<>>),
    Line("ctor", classname, <<>>),
    Line("dtor", classname, <<>>),
    Line("move_ctor", classname, <<>>),
    Line("move_assign", classname, <<>>),
    Line("copy_ctor_deleted", classname, <<>>),
    Line("copy_assign_deleted", classname, <<>>)>>

\* The head of the struct of a CHOICES or OBJECT type (lines 259 to 266).
StructHead(classname) ==
  <<Line("struct", classname, <<>>),
    Line("ctor", classname, <<>>),
    Line("dtor", classname, <<>>),
    Line("copy_ctor_deleted", classname, <<>>),
    Line("copy_assign_deleted", classname, <<>>),
    Line("move_ctor", classname, <<>>),
    Line("move_assign", classname, <<>>)>>

\* ChoiceFields with the choices taken from the last to the first.
ChoiceFields_Reversed(self, choices) ==
  <<Line("comment", "Choices:", <<>>)>>
  \o [i \in 1..Len(choices) |->
        Line("choice_field", choices[Len(choices) + 1 - i].unix_name,
             <<"optional">>)]

\* The fields of a CHOICES type (lines 344 to 348): one optional field per
\* choice.
ChoiceFields(self, choices) ==
  <<Line("comment", "Choices:", <<>>)>>
  \o [i \in 1..Len(choices) |->
        Line("choice_field", choices[i].unix_name, <<"optional">>)]

\* The methods of a type that is read from JSON (lines 277 to 328).
FromJsonMethods(self, type_, classname, is_toplevel) ==
  LET is_choices == type_.property_type = "CHOICES"
      return_type == IF self.generate_error_messages
                     THEN "expected" ELSE "optional"
  IN <<Line("comment", "Populate", <<>>),
       Line("Populate", classname,
            _GenerateParams(self, <<"const base::Value& value", "out">>,
                            <<>>, FALSE))>>
     \o (IF ~is_choices
         THEN <<Line("comment", "PopulateDict", <<>>),
                Line("PopulateDict", classname,
                     _GenerateParams(self,
                                     <<"const base::Value::Dict& value", "out">>,
                                     <<>>, FALSE))>>
         ELSE <<>>)
     \o <<Line("comment", "Clone", <<>>), Line("Clone", classname, <<>>)>>
     \o (IF is_toplevel
         THEN <<Line("comment", "FromValueDeprecated", <<>>),
                Line("FromValueDeprecated", classname,
                     _GenerateParams(self, <<"const base::Value& value">>,
                                     <<>>, TRUE))>>
         ELSE <<>>)
     \o (IF ~is_choices
         THEN <<Line("comment", "FromValueDict", <<return_type>>),
                Line("FromValueDict", classname, <<return_type>>)>>
         ELSE <<>>)
     \o <<Line("comment", "FromValue", <<return_type>>),
          Line("FromValue", classname, <<return_type>>)>>

\* _GenerateType: the declaration of one type, by its shape.
_GenerateType(self, type_, is_toplevel, generate_typedefs) ==
  LET classname == Classname(StripNamespace(type_.name))
  IN IF type_.functions # <<>>
     THEN Then(Ok(<<Line("namespace", classname, <<>>)>>),
          Then(_GenerateFunctions(self, type_.functions),
               Ok(<<Line("end_namespace", classname, <<>>)>>)))
     ELSE IF type_.property_type = "ARRAY"
     THEN Then(_GenerateType(self, type_.item_type[1], is_toplevel, FALSE),
               Ok(IF generate_typedefs
                  THEN IF ~IsGenericValue(type_.item_type[1])
                       THEN <<Line("using_vector", classname, <<>>)>>
                       ELSE <<Line("using_list", classname, <<>>)>>
                  ELSE <<>>))
     ELSE IF type_.property_type = "STRING"
     THEN Ok(IF generate_typedefs
             THEN <<Line("using_string", classname, <<>>)>>
             ELSE <<>>)
     ELSE IF type_.property_type = "ENUM"
     THEN LET maybe_static == IF is_toplevel THEN <<>> ELSE <<"static">>
          IN Then(_GenerateEnumDeclaration(self, classname, type_),
                  Ok(<<Line("ToString", classname, maybe_static),
                       Line("Parse", classname, maybe_static),
                       Line("GetParseError", classname, maybe_static)>>))
     ELSE IF type_.property_type \in {"CHOICES", "OBJECT"}
     THEN LET is_choices == type_.property_type = "CHOICES"
              value_type == IF is_choices
                            THEN "base::Value" ELSE "base::Value::Dict"
              head ==
                StructHead(classname)
                \o (IF type_.origin.from_manifest_keys
                    THEN <<Line("comment", "Manifest key constants.", <<>>)>>
                         \o _GenerateManifestKeyConstants(self, type_.properties)
                    ELSE <<>>)
                \o (IF type_.origin.from_json
                    THEN FromJsonMethods(self, type_, classname, is_toplevel)
                    ELSE <<>>)
                \o (IF type_.origin.from_client
                    THEN <<Line("comment", "ToValue", <<value_type>>),
                           Line("ToValue", classname, <<value_type>>)>>
                    ELSE <<>>)
                \o (IF type_.origin.from_manifest_keys
                    THEN _GenerateParseFromDictionary(self, type_, classname)
                    ELSE <<>>)
              body ==
                IF is_choices
                THEN Then(_GenerateTypes(self, type_.choices, FALSE, FALSE),
                          Ok(ChoiceFields(self, type_.choices)))
                ELSE Then(_GenerateTypes(self, PropertyTypes(type_.properties),
                                         FALSE, FALSE),
                     Then(Ok(_GenerateFields(self, type_.properties)),
                          IF type_.additional_properties # <<>>
                          THEN IF IsGenericValue(type_.additional_properties[1])
                               THEN Ok(<<Line("additional_properties_dict",
                                              classname, <<>>)>>)
                               ELSE Then(_GenerateType(self,
                                           type_.additional_properties[1],
                                           FALSE, FALSE),
                                         Ok(<<Line("additional_properties_map",
                                                   classname, <<>>)>>))
                          ELSE Ok(<<>>)))
          IN Then(Ok(head), Then(body, Ok(<<Line("end_struct", classname, <<>>)>>)))
     ELSE Ok(<<>>)

\* The loop over the functions of a type or of the namespace.
_GenerateFunctions(self, functions) ==
  IF functions = <<>>
  THEN Ok(<<>>)
  ELSE Then(_GenerateFunction(self, Head(functions)),
            _GenerateFunctions(self, Tail(functions)))

\* _GenerateFunction with the Results written before the Params.
_GenerateFunction_ResultsFirst(self, function) ==
  LET function_namespace ==
        IF Classname(function.name) = "SendMessage"
        THEN "PassMessage"
        ELSE Classname(function.name)
  IN Then(Ok(<<Line("namespace", function_namespace, <<>>)>>),
     Then(IF function.returns_async # <<>>
          THEN _GenerateFunctionResults(self, function.returns_async[1])
          ELSE Ok(<<>>),
     Then(_GenerateFunctionParams(self, function),
          Ok(<<Line("end_namespace", function_namespace, <<>>)>>))))

\* _GenerateFunction: the scope of a function, its Params and its Results.
_GenerateFunction(self, function) ==
  LET function_namespace ==
        IF Classname(function.name) = "SendMessage"
        THEN "PassMessage"
        ELSE Classname(function.name)
  IN Then(Ok(<<Line("namespace", function_namespace, <<>>)>>),
     Then(_GenerateFunctionParams(self, function),
     Then(IF function.returns_async # <<>>
          THEN _GenerateFunctionResults(self, function.returns_async[1])
          ELSE Ok(<<>>),
          Ok(<<Line("end_namespace", function_namespace, <<>>)>>))))

\* ParamsTail without the Eblock of line 426.
ParamsTail_NoEblock(self, function) ==
  _GenerateFields(self, function.params)
  \o <<Line("private", "Params", <<>>),
       Line("ctor", "Params", <<>>),
       Line("end_struct", "Params", <<>>)>>

\* Lines 425 to 430: the fields, the end of the public block, and the
\* private block with the default constructor.
ParamsTail(self, function) ==
  _GenerateFields(self, function.params)
  \o <<Line("eblock", "Params", <<>>),
       Line("private", "Params", <<>>),
       Line("ctor", "Params", <<>>),
       Line("end_struct", "Params", <<>>)>>

\* _GenerateFunctionParams: the Params struct of a function with parameters.
_GenerateFunctionParams(self, function) ==
  IF function.params = <<>>
  THEN Ok(<<>>)
  ELSE Then(Ok(<<Line("struct", "Params", <<>>)>>
               \o (IF self.generate_error_messages
                   THEN <<Line("CreateExpected", "Params", <<>>),
                          Line("comment", "DEPRECATED", <<>>)>>
                   ELSE <<>>)
               \o <<Line("Create", "Params",
                         _GenerateParams(self,
                                         <<"const base::Value::List& args">>,
                                         <<>>, FALSE)),
                    Line("copy_ctor_deleted", "Params", <<>>),
                    Line("copy_assign_deleted", "Params", <<>>),
                    Line("move_ctor", "Params", <<>>),
                    Line("move_assign", "Params", <<>>),
                    Line("dtor", "Params", <<>>)>>),
       Then(_GenerateTypes(self, PropertyTypes(function.params), FALSE, FALSE),
            Ok(ParamsTail(self, function))))

\* _GenerateAsyncResponseArguments: the types of the arguments, then Create.
_GenerateAsyncResponseArguments(self, params) ==
  Then(_GenerateTypes(self, PropertyTypes(params), TRUE, FALSE),
       Ok(<<Line("Create", "",
                 [i \in 1..Len(params) |-> params[i].unix_name])>>))

\* _GenerateFunctionResults: the Results scope of an asynchronous return.
_GenerateFunctionResults(self, returns_async) ==
  Then(Ok(<<Line("namespace", "Results", <<>>)>>),
  Then(_GenerateAsyncResponseArguments(self, returns_async.params),
       Ok(<<Line("end_namespace", "Results", <<>>)>>)))

\* _GenerateEvent: the scope of an event.
_GenerateEvent(self, event) ==
  LET event_namespace == Classname(event.name)
  IN Then(Ok(<<Line("namespace", event_namespace, <<>>)>>
             \o _GenerateEventNameConstant(self, event)),
     Then(_GenerateAsyncResponseArguments(self, event.params),
          Ok(<<Line("end_namespace", event_namespace, <<>>)>>)))

RECURSIVE _GenerateEvents(_, _)
\* The loop over the events of the namespace.
_GenerateEvents(self, events) ==
  IF events = <<>>
  THEN Ok(<<>>)
  ELSE Then(_GenerateEvent(self, Head(events)),
            _GenerateEvents(self, Tail(events)))

\* _GenerateManifestKeys: the manifest keys type, which must be an OBJECT.
_GenerateManifestKeys(self) ==
  IF self.namespace.manifest_keys = <<>>
     \/ self.namespace.manifest_keys[1].property_type # "OBJECT"
  THEN Raise("AssertionError")
  ELSE _GenerateType(self, self.namespace.manifest_keys[1], FALSE, FALSE)

(***************************************************************************)
(* The namespaces the model generates from.                                *)
(***************************************************************************)
Namespace(name, types, properties, manifest_keys, functions, events, options) ==
  [name |-> name, types |-> types, properties |-> properties,
   manifest_keys |-> manifest_keys, functions |-> functions,
   events |-> events, compiler_options |-> options]

Options(generate_error_messages, modernised_enums) ==
  [generate_error_messages |-> generate_error_messages,
   modernised_enums |-> modernised_enums]

\* A property of a namespace type: a REF to a type of this namespace (the
\* tag is its identifier), a REF to a type of another namespace, a REF to a
\* type the namespace does not define, or a string.
PropertyTo(id, tag) ==
  Property(id,
           IF tag = "@string" THEN Type(QName("", id), "STRING")
           ELSE IF tag = "@other"
           THEN RefType(QName("", id), QName(OtherNamespace, "A"))
           ELSE IF tag = "@missing"
           THEN RefType(QName("", id), QName(ThisNamespace, "Missing"))
           ELSE RefType(QName("", id), QName(ThisNamespace, tag)),
           FALSE)

TargetTags(n) ==
  {TypeIds[j] : j \in 1..n} \cup {"@other", "@missing", "@string"}

\* The n types A, B, .. of a namespace in declared order; property q of the
\* namespace (in the order of its owners) belongs to owner[q] and has the
\* target tgt[q].
GraphTypes(n, owner, tgt) ==
  [i \in 1..n |->
     LET before == Cardinality({q \in DOMAIN owner : owner[q] < i})
         count == Cardinality({q \in DOMAIN owner : owner[q] = i})
     IN ObjectType(QName(ThisNamespace, TypeIds[i]),
                   [p \in 1..count |-> PropertyTo(FieldIds[p], tgt[before + p])],
                   Origin(TRUE, TRUE, FALSE))]

NonDecreasing(f) == \A q \in DOMAIN f : q > 1 => f[q - 1] <= f[q]

StringProperty(id) == Property(id, Type(QName("", id), "STRING"), FALSE)

\* The namespace-level properties: with a value to declare, or without.
NamespaceProperty(id, has_value) == [name |-> id, has_value |-> has_value]

SomeFunctions ==
  <<Function("get", <<StringProperty("x")>>, <<>>),
    Function("sendMessage", <<>>, <<[params |-> <<StringProperty("y")>>]>>),
    Function("set", <<StringProperty("x")>>, <<[params |-> <<>>]>>)>>

SomeEvents ==
  <<Event("onA", <<>>), Event("onB", <<StringProperty("x")>>),
    Event("onC", <<>>)>>

ManifestKeysType ==
  [ObjectType(QName("", "ManifestKeys"), <<StringProperty("x")>>,
              Origin(FALSE, FALSE, TRUE)) EXCEPT !.is_root_manifest = TRUE]

Prefix(seq, n) == SubSeq(seq, 1, n)

\* A namespace with the given types, and with every other section either
\* absent or present.
GraphNamespace(types, full) ==
  Namespace(ThisNamespace, types,
            IF full THEN <<NamespaceProperty("p", TRUE)>> ELSE <<>>,
            IF full THEN <<ManifestKeysType>> ELSE <<>>,
            IF full THEN Prefix(SomeFunctions, 2) ELSE <<>>,
            IF full THEN Prefix(SomeEvents, 2) ELSE <<>>,
            Options(FALSE, FALSE))

\* A type of the namespace that is a string, an array of strings, of
\* generic values or of arrays, or an object with a string and an array.
AliasTags == {"STRING", "ARRAY", "ARRAY_ANY", "ARRAY_ARRAY", "OBJECT"}

AliasType(name, tag) ==
  LET item(item_tag) == Type(QName("", "item"), item_tag)
  IN CASE tag = "STRING" -> Type(name, "STRING")
       [] tag = "ARRAY" -> ArrayType(name, item("STRING"))
       [] tag = "ARRAY_ANY" -> ArrayType(name, item("ANY"))
       [] tag = "ARRAY_ARRAY" ->
            ArrayType(name, ArrayType(QName("", "item"), item("STRING")))
       [] tag = "OBJECT" ->
            ObjectType(name,
                       <<StringProperty("x"),
                         Property("y", ArrayType(QName("", "y"), item("STRING")),
                                  FALSE)>>,
                       Origin(TRUE, TRUE, FALSE))

\* A namespace with the given sections, and at most one type.
SectionNamespace(name, nt, properties, manifest_keys, nf, ne) ==
  Namespace(name,
            Prefix(<<ObjectType(QName(name, "A"), <<>>,
                                Origin(TRUE, TRUE, FALSE))>>, nt),
            properties, manifest_keys,
            Prefix(SomeFunctions, nf), Prefix(SomeEvents, ne),
            Options(FALSE, FALSE))

(***************************************************************************)
(* _Generator.Generate and _FieldDependencyOrder, step by step.            *)
(***************************************************************************)
NoCall ==
  [type_ |-> Type(QName("", ""), "NONE"), is_toplevel |-> FALSE,
   generate_typedefs |-> FALSE]

NoError == [kind |-> "", names |-> <<>>]

\* The processes that use _FileLock on one base path, and the files that
\* can be at the pseudo lock path or open at one time.
Procs == 1..MaxProcs

Inodes == 1..(MaxProcs + 1)

\* No process uses _FileLock.
NoFileLock ==
  /\ lock_pc = [p \in Procs |-> "idle"]
  /\ pseudo_lock_fd = [p \in Procs |-> 0]
  /\ global_file = 0
  /\ pseudo_lock_path = 0
  /\ file_lock = [i \in Inodes |-> 0]
  /\ pseudo_lock_fd_return = [p \in Procs |-> <<>>]
  /\ attempt_ret = [p \in Procs |-> ""]
  /\ body_exit = [p \in Procs |-> ""]

\* No call of cloud_storage.py is made.
NoCloudStorage ==
  /\ NoFileLock
  /\ environ = <<>>
  /\ platform = [cros |-> FALSE, swarming |-> FALSE]
  /\ files = [file |-> <<>>, sha1 |-> <<>>, fetchts |-> <<>>,
              partial |-> <<>>, pseudo_lock |-> FALSE]
  /\ popen = <<>>
  /\ cs_call = [op |-> ""]
  /\ cs_pc = ""
  /\ cs_local = [expected_hash |-> "", attempts |-> 0, cp |-> <<>>]
  /\ cs_ret = [kind |-> "", value |-> ""]

InSeq(x, seq) == \E i \in 1..Len(seq) : seq[i] = x

Names(types) == [i \in 1..Len(types) |-> types[i].name]

\* The three comment lines that open a section.
SectionComment(title) ==
  <<Line("slashes", "", <<>>), Line("section", title, <<>>),
    Line("slashes", "", <<>>)>>

\* Lines 34 to 79: the licence, the inclusion guard, the includes and the
\* opening of the C++ namespace.
Prolog(self) ==
  LET include_soft == self.namespace.name \notin {"tabs", "windows"}
  IN <<Line("license", "", <<>>),
       Line("generated_file", self.namespace.name, <<>>),
       Line("ifndef", self.namespace.name, <<>>),
       Line("define", self.namespace.name, <<>>),
       Line("include", "<stdint.h>", <<>>),
       Line("include", "<map>", <<>>),
       Line("include", "<memory>", <<>>),
       Line("include", "<string>", <<>>),
       Line("include", "<vector>", <<>>),
       Line("include", "base/values.h", <<>>),
       Line("includes", "",
            IF include_soft THEN <<"include_soft">> ELSE <<>>)>>
     \o (IF ~include_soft
         THEN <<Line("forward_declarations", "", <<>>)>>
         ELSE <<>>)
     \o <<Line("open_namespace", self.namespace.name, <<>>)>>

\* Lines 80 to 91: the section of the namespace's properties.
PropertiesSection(self) ==
  LET properties == self.namespace.properties
      valued == SelectSeq(properties, LAMBDA prop : prop.has_value)
  IN IF properties # <<>>
     THEN SectionComment("Properties")
          \o [i \in 1..Len(valued) |->
                Line("extern_const", valued[i].name, <<>>)]
     ELSE <<>>

\* Lines 92 to 100: the section of the types, in the order given.
TypesSection(self, order) ==
  Then(Ok(SectionComment("Types")), _GenerateTypes(self, order, TRUE, TRUE))

\* Lines 101 to 106: the section of the manifest keys.
ManifestKeysSection(self) ==
  IF self.namespace.manifest_keys # <<>>
  THEN Then(Ok(SectionComment("Manifest Keys")), _GenerateManifestKeys(self))
  ELSE Ok(<<>>)

\* FunctionsSection without the test of line 107.
FunctionsSection_Always(self) ==
  Then(Ok(SectionComment("Functions")),
       _GenerateFunctions(self, self.namespace.functions))

\* Lines 107 to 114: the section of the functions.
FunctionsSection(self) ==
  IF self.namespace.functions # <<>>
  THEN Then(Ok(SectionComment("Functions")),
            _GenerateFunctions(self, self.namespace.functions))
  ELSE Ok(<<>>)

\* Lines 115 to 122: the section of the events.
EventsSection(self) ==
  IF self.namespace.events # <<>>
  THEN Then(Ok(SectionComment("Events")),
            _GenerateEvents(self, self.namespace.events))
  ELSE Ok(<<>>)

\* Lines 123 to 127: the closing of the namespace and of the guard.
Epilog(self) ==
  <<Line("close_namespace", self.namespace.name, <<>>),
    Line("endif", self.namespace.name, <<>>)>>

\* AfterTypes with the events written before the functions.
AfterTypes_EventsFirst(self) ==
  Then(ManifestKeysSection(self),
  Then(EventsSection(self),
  Then(FunctionsSection(self), Ok(Epilog(self)))))

\* Lines 101 to 128: what Generate writes after the types.
AfterTypes(self) ==
  Then(ManifestKeysSection(self),
  Then(FunctionsSection(self),
  Then(EventsSection(self), Ok(Epilog(self)))))

\* OnPath without the test of line 137.
OnPath_Never(path, type_) == FALSE

\* Line 137: the type is already on the expansion path.
OnPath(path, type_) == InSeq(type_, path)

\* IsLocalRef with the identifier of the referenced type taken for its
\* namespace.
IsLocalRef_Identifier(self, prop) ==
  /\ prop.type_.property_type = "REF"
  /\ StripNamespace(prop.type_.ref_type) = self.namespace.name

\* IsLocalRef without the test of the namespace (line 142).
IsLocalRef_AnyRef(self, prop) == prop.type_.property_type = "REF"

\* Lines 141 and 142: the property is a REF to a type of this namespace.
IsLocalRef(self, prop) ==
  /\ prop.type_.property_type = "REF"
  /\ GetNamespace(prop.type_.ref_type) = self.namespace.name

\* Line 143: self._namespace.types[ref_type], a sequence of at most one type.
TypesNamed(namespace, name) ==
  SelectSeq(namespace.types, LAMBDA t : t.name = name)

\* AppendOnce with the type put in front of the order.
AppendOnce_Front(order, type_) ==
  IF ~InSeq(type_, order) THEN <<type_>> \o order ELSE order

\* AppendOnce without the test of line 144.
AppendOnce_Always(order, type_) == Append(order, type_)

\* Lines 144 and 145: a type is appended unless it is in the order already.
AppendOnce(order, type_) ==
  IF ~InSeq(type_, order) THEN Append(order, type_) ELSE order

\* Lines 138 and 139: the names the error lists.
CycleNames(path, type_) == Names(path \o <<type_>>)

Frame(path, type_) == [path |-> path, type_ |-> type_, prop |-> 0]

Top == stack[Len(stack)]

Fail(kind, names) ==
  /\ pc' = "failed"
  /\ err' = [kind |-> kind, names |-> names]
  /\ stack' = <<>>
  /\ UNCHANGED <<cs_vars, ns, call, idx, dependency_order, out>>

\* Generate, lines 34 to 91.
GenerateProlog ==
  /\ pc = "Generate"
  /\ out' = Prolog(Generator(ns)) \o PropertiesSection(Generator(ns))
  /\ pc' = "types"
  /\ UNCHANGED <<cs_vars, ns, call, idx, stack, dependency_order, err>>

\* Generate, line 92: a namespace without types has no types section.
SkipTypes ==
  /\ pc = "types"
  /\ ns.types = <<>>
  /\ pc' = "after_types"
  /\ UNCHANGED <<cs_vars, ns, call, idx, stack, dependency_order, out, err>>

\* _FieldDependencyOrder, line 134: called from line 97.
FieldDependencyOrderEnter ==
  /\ pc = "types"
  /\ ns.types # <<>>
  /\ dependency_order' = <<>>
  /\ idx' = 1
  /\ pc' = "for_type"
  /\ UNCHANGED <<cs_vars, ns, call, stack, out, err>>

\* _FieldDependencyOrder, lines 147 and 148: the next type is expanded.
ForType ==
  /\ pc = "for_type"
  /\ idx <= Len(ns.types)
  /\ stack' = <<Frame(<<>>, ns.types[idx])>>
  /\ idx' = idx + 1
  /\ pc' = "ExpandType"
  /\ UNCHANGED <<cs_vars, ns, call, dependency_order, out, err>>

\* ExpandType, lines 137 to 139: a type on the path again is an error.
ExpandTypeRaise ==
  /\ pc = "ExpandType"
  /\ Top.prop = 0
  /\ OnPath(Top.path, Top.type_)
  /\ Fail("ValueError", CycleNames(Top.path, Top.type_))

\* ExpandType, line 137: the type is not on the path.
ExpandTypeEnter ==
  /\ pc = "ExpandType"
  /\ Top.prop = 0
  /\ ~OnPath(Top.path, Top.type_)
  /\ stack' = [stack EXCEPT ![Len(stack)].prop = 1]
  /\ UNCHANGED <<cs_vars, ns, call, pc, idx, dependency_order, out, err>>

\* ExpandType, lines 140 to 143: the next property; a REF to a type of the
\* namespace is expanded, any other property is passed over.
ExpandProperty ==
  /\ pc = "ExpandType"
  /\ Top.prop \in 1..Len(Top.type_.properties)
  /\ LET prop == Top.type_.properties[Top.prop]
         found == TypesNamed(ns, prop.type_.ref_type)
         next == [stack EXCEPT ![Len(stack)].prop = Top.prop + 1]
     IN IF IsLocalRef(Generator(ns), prop)
        THEN IF found = <<>>
             THEN Fail("KeyError", <<prop.type_.ref_type>>)
             ELSE /\ stack' = Append(next, Frame(Top.path \o <<Top.type_>>,
                                                found[1]))
                  /\ UNCHANGED <<cs_vars, ns, call, pc, idx, dependency_order, out, err>>
        ELSE /\ stack' = next
             /\ UNCHANGED <<cs_vars, ns, call, pc, idx, dependency_order, out, err>>

\* ExpandType, lines 144 and 145: after its properties the type is appended
\* and the call returns.
ExpandTypeReturn ==
  /\ pc = "ExpandType"
  /\ Top.prop > Len(Top.type_.properties)
  /\ dependency_order' = AppendOnce(dependency_order, Top.type_)
  /\ stack' = SubSeq(stack, 1, Len(stack) - 1)
  /\ pc' = IF Len(stack) = 1 THEN "for_type" ELSE "ExpandType"
  /\ UNCHANGED <<cs_vars, ns, call, idx, out, err>>

\* GenerateTypesSection with the order stored as the types of the namespace.
GenerateTypesSection_StoresOrder ==
  /\ pc = "for_type"
  /\ idx > Len(ns.types)
  /\ LET r == TypesSection(Generator(ns), dependency_order)
     IN IF r.ok
        THEN /\ out' = out \o r.code
             /\ pc' = "after_types"
             /\ ns' = [ns EXCEPT !.types = dependency_order]
             /\ UNCHANGED <<cs_vars, call, idx, stack, dependency_order, err>>
        ELSE Fail(r.err, <<>>)

\* _FieldDependencyOrder, line 149, and Generate, lines 93 to 100: the order
\* is returned and the types are declared in it.
GenerateTypesSection ==
  /\ pc = "for_type"
  /\ idx > Len(ns.types)
  /\ LET r == TypesSection(Generator(ns), dependency_order)
     IN IF r.ok
        THEN /\ out' = out \o r.code
             /\ pc' = "after_types"
             /\ UNCHANGED <<cs_vars, ns, call, idx, stack, dependency_order, err>>
        ELSE Fail(r.err, <<>>)

\* Generate, lines 101 to 128: the remaining sections, and the return.
GenerateAfterTypes ==
  /\ pc = "after_types"
  /\ LET r == AfterTypes(Generator(ns))
     IN IF r.ok
        THEN /\ out' = out \o r.code
             /\ pc' = "done"
             /\ UNCHANGED <<cs_vars, ns, call, idx, stack, dependency_order, err>>
        ELSE Fail(r.err, <<>>)

\* The namespaces Generate is called on: any REF graph of at most MaxRefs
\* properties among at most MaxTypes types.
InitGraph ==
  \E n \in 1..MaxTypes, k \in 0..MaxRefs, full \in BOOLEAN :
    \E owner \in [1..k -> 1..n], tgt \in [1..k -> TargetTags(n)] :
      /\ NonDecreasing(owner)
      /\ ns = GraphNamespace(GraphTypes(n, owner, tgt), full)

\* The namespaces Generate is called on: any combination of sections.
InitSections ==
  \E name \in {ThisNamespace, "tabs"}, nt \in 0..1, nf \in 0..2, ne \in 0..2 :
    \E properties \in {<<>>, <<NamespaceProperty("p", TRUE)>>,
                        <<NamespaceProperty("p", FALSE),
                          NamespaceProperty("q", TRUE)>>},
       manifest_keys \in {<<>>, <<ManifestKeysType>>} :
      ns = SectionNamespace(name, nt, properties, manifest_keys, nf, ne)

\* The namespaces Generate is called on: types that are aliases.
InitAliases ==
  \E n \in 1..MaxTypes, full \in BOOLEAN :
    \E tags \in [1..n -> AliasTags] :
      ns = GraphNamespace([i \in 1..n |->
                             AliasType(QName(ThisNamespace, TypeIds[i]),
                                       tags[i])],
                          full)

Init ==
  /\ InitGraph \/ InitSections \/ InitAliases
  /\ NoCloudStorage
  /\ call = NoCall
  /\ pc = "Generate"
  /\ idx = 0
  /\ stack = <<>>
  /\ dependency_order = <<>>
  /\ out = <<>>
  /\ err = NoError

Next ==
  \/ GenerateProlog
  \/ SkipTypes
  \/ FieldDependencyOrderEnter
  \/ ForType
  \/ ExpandTypeRaise
  \/ ExpandTypeEnter
  \/ ExpandProperty
  \/ ExpandTypeReturn
  \/ GenerateTypesSection
  \/ GenerateAfterTypes

Spec == Init /\ [][Next]_vars

\* _FieldDependencyOrder alone, from its call at line 97 of Generate on any
\* REF graph to its return or its error.
InitOrder ==
  /\ InitGraph
  /\ NoCloudStorage
  /\ call = NoCall
  /\ pc = "types"
  /\ idx = 0
  /\ stack = <<>>
  /\ dependency_order = <<>>
  /\ out = Prolog(Generator(ns)) \o PropertiesSection(Generator(ns))
  /\ err = NoError

NextOrder ==
  \/ FieldDependencyOrderEnter
  \/ ForType
  \/ ExpandTypeRaise
  \/ ExpandTypeEnter
  \/ ExpandProperty
  \/ ExpandTypeReturn

\* The traversal runs in one thread, which takes its next step as long as
\* there is one.
SpecOrder == InitOrder /\ [][NextOrder]_vars /\ WF_vars(NextOrder)

\* Line 149: the loop of line 147 is over and the order is returned.
TraversalReturned == pc = "for_type" /\ idx > Len(ns.types)

(***************************************************************************)
(* The type emitter applied to one type: the calls _GenerateType and       *)
(* _GenerateEnumDeclaration receive.                                       *)
(***************************************************************************)
\* The types declared inline: of a property, a choice or an array item.
InlineTags == {"STRING", "ANY", "REF", "OBJECT", "ENUM0", "ENUM1"}

InlineType(id, tag) ==
  CASE tag = "STRING" -> Type(QName("", id), "STRING")
    [] tag = "ANY" -> Type(QName("", id), "ANY")
    [] tag = "REF" -> RefType(QName("", id), QName(ThisNamespace, "A"))
    [] tag = "OBJECT" ->
         ObjectType(QName("", id), <<>>, Origin(TRUE, FALSE, FALSE))
    [] tag = "ENUM0" -> EnumType(QName("", id), <<>>)
    [] tag = "ENUM1" -> EnumType(QName("", id), <<"Foo">>)

InlineTypes(tags) == [i \in 1..Len(tags) |-> InlineType(FieldIds[i], tags[i])]

Origins ==
  {Origin(from_json, from_client, from_manifest_keys) :
     from_json \in BOOLEAN, from_client \in BOOLEAN,
     from_manifest_keys \in BOOLEAN}

PropertiesOf(types, last_optional) ==
  [i \in 1..Len(types) |->
     Property(types[i].unix_name, types[i],
              last_optional /\ i = Len(types))]

TopName == QName(ThisNamespace, "T")

\* The flags _GenerateType is called with: the types section passes both,
\* the response arguments and the items of a top-level array the first.
CallFlags == {<<TRUE, TRUE>>, <<TRUE, FALSE>>, <<FALSE, FALSE>>}

\* _GenerateType is called on the type t.
CallOf(t) ==
  \E flags \in CallFlags :
    call = [type_ |-> t, is_toplevel |-> flags[1],
            generate_typedefs |-> flags[2]]

\* The type of the call is a primitive, a REF, an enum, or carries a tag
\* that is no member of PropertyType.
SimpleCall ==
  \/ \E t \in {Type(TopName, "STRING"), Type(TopName, "INTEGER"),
                Type(TopName, "ANY"), Type(TopName, "UNKNOWN"),
                RefType(TopName, QName(ThisNamespace, "A"))} : CallOf(t)
  \/ \E n \in 0..MaxEnumValues : CallOf(EnumType(TopName, Prefix(EnumIds, n)))

\* The type of the call is an array of an inline type.
ArrayCall ==
  \E tag \in InlineTags : CallOf(ArrayType(TopName, InlineType("x", tag)))

\* The type of the call is an object of at most MaxFields properties.
ObjectCall ==
  \E n \in 0..MaxFields, last_optional \in BOOLEAN, origin \in Origins :
    \E tags \in [1..n -> InlineTags] :
      CallOf(ObjectType(TopName,
                        PropertiesOf(InlineTypes(tags), last_optional),
                        origin))

\* The type of the call is an object with additional properties.
AdditionalPropertiesCall ==
  \E origin \in Origins, tag \in InlineTags, root \in BOOLEAN :
    CallOf([ObjectType(TopName, <<StringProperty("x")>>, origin)
              EXCEPT !.additional_properties = <<InlineType("y", tag)>>,
                     !.is_root_manifest = root])

\* The type of the call is a choice of at most MaxFields types.
ChoicesCall ==
  \E n \in 0..MaxFields, origin \in Origins :
    \E tags \in [1..n -> InlineTags] :
      CallOf(ChoicesType(TopName, InlineTypes(tags), origin))

\* The type of the call declares functions.
FunctionsCall ==
  \E nf \in 1..2 :
    \E t \in {Type(TopName, "STRING"),
               ObjectType(TopName, <<StringProperty("x")>>,
                          Origin(TRUE, TRUE, FALSE)),
               ChoicesType(TopName, <<Type(QName("", "x"), "STRING")>>,
                           Origin(TRUE, TRUE, FALSE))} :
      CallOf([t EXCEPT !.functions = Prefix(SomeFunctions, nf)])

\* _GenerateFunction is called on a function of at most MaxFields
\* parameters, with or without an asynchronous return of at most one
\* parameter.
FunctionCall ==
  \E id \in Range(FunctionIds), n \in 0..MaxFields, m \in 0..1,
     is_async \in BOOLEAN :
    \E tags \in [1..n -> InlineTags], rtags \in [1..m -> InlineTags] :
      call = [function |->
                Function(id, PropertiesOf(InlineTypes(tags), FALSE),
                         IF is_async
                         THEN <<[params |->
                                   PropertiesOf(InlineTypes(rtags), FALSE)]>>
                         ELSE <<>>)]

\* _GenerateEvent is called on an event of at most MaxFields parameters.
EventCall ==
  \E id \in Range(EventIds), n \in 0..MaxFields :
    \E tags \in [1..n -> InlineTags] :
      call = [event |-> Event(id, PropertiesOf(InlineTypes(tags), FALSE))]

\* A call of _GenerateType (lines 199 to 365).
Call_GenerateType ==
  /\ pc = "call"
  /\ LET r == _GenerateType(Generator(ns), call.type_, call.is_toplevel,
                            call.generate_typedefs)
     IN /\ pc' = IF r.ok THEN "type_returned" ELSE "type_raised"
        /\ out' = r.code
        /\ err' = [kind |-> r.err, names |-> <<>>]
  /\ UNCHANGED <<cs_vars, ns, call, idx, stack, dependency_order>>

\* A call of _GenerateEnumDeclaration (lines 151 to 180), which the emitter
\* makes for an ENUM type.
Call_GenerateEnumDeclaration ==
  /\ pc = "call"
  /\ call.type_.property_type = "ENUM"
  /\ call.type_.functions = <<>>
  /\ LET r == _GenerateEnumDeclaration(
                Generator(ns), Classname(StripNamespace(call.type_.name)),
                call.type_)
     IN /\ pc' = IF r.ok THEN "enum_returned" ELSE "enum_raised"
        /\ out' = r.code
        /\ err' = [kind |-> r.err, names |-> <<>>]
  /\ UNCHANGED <<cs_vars, ns, call, idx, stack, dependency_order>>

\* A call of _GenerateFunction (lines 381 to 398).
Call_GenerateFunction ==
  /\ pc = "call_function"
  /\ LET r == _GenerateFunction(Generator(ns), call.function)
     IN /\ pc' = IF r.ok THEN "function_returned" ELSE "function_raised"
        /\ out' = r.code
        /\ err' = [kind |-> r.err, names |-> <<>>]
  /\ UNCHANGED <<cs_vars, ns, call, idx, stack, dependency_order>>

\* A call of _GenerateEvent (lines 367 to 379).
Call_GenerateEvent ==
  /\ pc = "call_event"
  /\ LET r == _GenerateEvent(Generator(ns), call.event)
     IN /\ pc' = IF r.ok THEN "event_returned" ELSE "event_raised"
        /\ out' = r.code
        /\ err' = [kind |-> r.err, names |-> <<>>]
  /\ UNCHANGED <<cs_vars, ns, call, idx, stack, dependency_order>>

InitType ==
  /\ NoCloudStorage
  /\ \E generate_error_messages \in BOOLEAN, modernised_enums \in BOOLEAN :
       ns = Namespace(ThisNamespace, <<>>, <<>>, <<>>, <<>>, <<>>,
                      Options(generate_error_messages, modernised_enums))
  /\ \/ /\ pc = "call"
        /\ \/ SimpleCall
           \/ ArrayCall
           \/ ObjectCall
           \/ AdditionalPropertiesCall
           \/ ChoicesCall
           \/ FunctionsCall
     \/ pc = "call_function" /\ FunctionCall
     \/ pc = "call_event" /\ EventCall
  /\ idx = 0
  /\ stack = <<>>
  /\ dependency_order = <<>>
  /\ out = <<>>
  /\ err = NoError

NextType ==
  \/ Call_GenerateType
  \/ Call_GenerateEnumDeclaration
  \/ Call_GenerateFunction
  \/ Call_GenerateEvent

SpecType == InitType /\ [][NextType]_vars

(***************************************************************************)
(* py_utils/cloud_storage.py: _RunCommand, GetIfChanged and _GetLocked.    *)
(* A file that may be absent is a sequence of length at most one.          *)
(***************************************************************************)
MaxTime == 3

gen_vars == <<ns, call, pc, idx, stack, dependency_order, out, err>>

\* No call of the generator is made.
NoGenerator ==
  /\ ns = Namespace(ThisNamespace, <<>>, <<>>, <<>>, <<>>, <<>>,
                    Options(FALSE, FALSE))
  /\ call = NoCall
  /\ pc = ""
  /\ idx = 0
  /\ stack = <<>>
  /\ dependency_order = <<>>
  /\ out = <<>>
  /\ err = NoError

\* The times of the clock and of the files.
Times == 1..MaxTime

Digits == <<"1", "2", "3", "4", "5", "6">>

\* str(time.time()): the text of a time.
Str(n) == Digits[n]

\* float(data): the time a text stands for, or none (ValueError).
ParseFloat(text) ==
  IF \E n \in 1..Len(Digits) : Digits[n] = text
  THEN <<CHOOSE n \in 1..Len(Digits) : Digits[n] = text>>
  ELSE <<>>

\* The contents of a binary, and the hash CalculateHash computes of each.
Contents == {"binary 1", "binary 2", "damaged binary"}

CalculateHash(content) ==
  CASE content = "binary 1" -> "da39a3"
    [] content = "binary 2" -> "7c211f"
    [] OTHER -> "ffffff"

\* The texts of a .sha1 file; ReadHash strips the white space at its end.
HashTexts == {"da39a3\n", "7c211f"}

ReadHash(text) ==
  CASE text = "da39a3\n" -> "da39a3"
    [] OTHER -> text

\* The values of DISABLE_CLOUD_STORAGE_IO: unset, or set to a text.
Environs == {<<>>, <<"1">>, <<"0">>, <<"">>}

\* IsNetworkIOEnabled (lines 184 to 194).
IsNetworkIOEnabled(env) == env # <<"1">>

\* How a gsutil process ends: its return code and what it wrote to stderr.
Stderrs ==
  {"You are attempting to access protected data with no configured",
   "status=403", "No such object", "500 Internal Server Error", "failure"}

GsutilResults ==
  {[returncode |-> 0, stderr |-> ""]}
  \cup {[returncode |-> 1, stderr |-> e] : e \in Stderrs}

\* GetErrorObjectForCloudStorageStderr (lines 166 to 181).
GetErrorObjectForCloudStorageStderr(stderr) ==
  CASE stderr = "You are attempting to access protected data with no configured"
         -> "CredentialsError"
    [] stderr = "status=403" -> "CloudStoragePermissionError"
    [] stderr = "No such object" -> "NotFoundError"
    [] stderr = "500 Internal Server Error" -> "ServerError"
    [] OTHER -> "CloudStorageError"

\* Lines 140 to 145: the environment the gsutil process is given.
GsutilEnv(plat) ==
  IF plat.cros THEN "os.environ with HOME=/home/chromeos-test/"
  ELSE IF plat.swarming THEN "os.environ"
  ELSE "None"

\* The commands whose name the test of line 151 looks for.
ExemptCommands == {"help", "hash", "version"}

\* _RunCommand (lines 132 to 163): the exception it raises ("" for none) and
\* the gsutil processes it starts.  The executable and the path of gsutil
\* are put in front of the arguments before the first argument is tested.
_RunCommand(args, env, plat, result) ==
  LET full == <<"sys.executable", "_GSUTIL_PATH">> \o args
  IN IF full[1] \notin ExemptCommands /\ ~IsNetworkIOEnabled(env)
     THEN [raise |-> "CloudStorageIODisabled", started |-> <<>>]
     ELSE [raise |-> IF result.returncode # 0
                     THEN GetErrorObjectForCloudStorageStderr(result.stderr)
                     ELSE "",
           started |-> <<[args |-> full, env |-> GsutilEnv(plat)]>>]

\* The end of a call: its result, and the release of the pseudo lock by
\* the finally clause of _FileLock (lines 368 and 369).
CsExit(kind, value, f) ==
  /\ cs_ret' = [kind |-> kind, value |-> value]
  /\ files' = [f EXCEPT !.pseudo_lock = FALSE]
  /\ cs_pc' = "done"

\* A call of _RunCommand.
Call_RunCommand ==
  /\ cs_pc = "_RunCommand"
  /\ \E result \in GsutilResults :
       LET r == _RunCommand(cs_call.args, environ, platform, result)
       IN /\ popen' = popen \o r.started
          /\ cs_ret' = IF r.raise # ""
                       THEN [kind |-> "raise", value |-> r.raise]
                       ELSE [kind |-> "return", value |-> "stdout"]
          /\ cs_pc' = "done"
  /\ UNCHANGED <<gen_vars, lock_vars, environ, platform, files, cs_call, cs_local>>

\* _FileLock, lines 339 to 367: the pseudo lock of file_path is taken.
FileLock_Enter ==
  /\ cs_pc = "GetIfChanged"
  /\ files' = [files EXCEPT !.pseudo_lock = TRUE]
  /\ cs_pc' = "hash_path"
  /\ UNCHANGED <<gen_vars, lock_vars, environ, platform, popen, cs_call, cs_local, cs_ret>>

\* GetIfChanged, lines 547 to 553: without a hash file nothing is done.
GetIfChanged_HashPath ==
  /\ cs_pc = "hash_path"
  /\ IF files.sha1 = <<>>
     THEN /\ CsExit("return", "False", files)
          /\ UNCHANGED cs_local
     ELSE /\ cs_local' = [cs_local EXCEPT
                            !.expected_hash = ReadHash(files.sha1[1].text)]
          /\ cs_pc' = "fetch_ts"
          /\ UNCHANGED <<files, cs_ret>>
  /\ UNCHANGED <<gen_vars, lock_vars, environ, platform, popen, cs_call>>

\* GetIfChanged, lines 566 to 572: a binary fetched after the hash file was
\* last modified is up to date.
GetIfChanged_FetchTs ==
  /\ cs_pc = "fetch_ts"
  /\ IF files.fetchts # <<>> /\ files.file # <<>>
     THEN LET last_binary_fetch_ts == ParseFloat(files.fetchts[1])
          IN IF last_binary_fetch_ts = <<>>
             THEN CsExit("raise", "ValueError", files)
             ELSE IF last_binary_fetch_ts[1] > files.sha1[1].mtime
             THEN CsExit("return", "False", files)
             ELSE /\ cs_pc' = "write_fetch_ts"
                  /\ UNCHANGED <<files, cs_ret>>
     ELSE /\ cs_pc' = "write_fetch_ts"
          /\ UNCHANGED <<files, cs_ret>>
  /\ UNCHANGED <<gen_vars, lock_vars, environ, platform, popen, cs_call, cs_local>>

\* GetIfChanged, lines 578 and 579: the time of this fetch is written.
GetIfChanged_WriteFetchTs ==
  /\ cs_pc = "write_fetch_ts"
  /\ \E now \in Times : files' = [files EXCEPT !.fetchts = <<Str(now)>>]
  /\ cs_pc' = "compare"
  /\ UNCHANGED <<gen_vars, lock_vars, environ, platform, popen, cs_call, cs_local, cs_ret>>

\* Line 581: the local binary has the expected hash.
UpToDate(f, expected_hash) ==
  f.file # <<>> /\ CalculateHash(f.file[1]) = expected_hash

\* GetIfChanged, lines 581 to 583.
GetIfChanged_Compare ==
  /\ cs_pc = "compare"
  /\ IF UpToDate(files, cs_local.expected_hash)
     THEN CsExit("return", "False", files)
     ELSE /\ cs_pc' = "_GetLocked"
          /\ UNCHANGED <<files, cs_ret>>
  /\ UNCHANGED <<gen_vars, lock_vars, environ, platform, popen, cs_call, cs_local>>

\* _GetLocked, lines 433 to 442: the temporary file is created.
GetLocked_Enter ==
  /\ cs_pc = "_GetLocked"
  /\ files' = [files EXCEPT !.partial = <<"">>]
  /\ cs_local' = [cs_local EXCEPT !.attempts = 0, !.cp = <<>>]
  /\ cs_pc' = "cp"
  /\ UNCHANGED <<gen_vars, lock_vars, environ, platform, popen, cs_call, cs_ret>>

\* RetriesDownload that tries again after any error.
RetriesDownload_AnyError(raise, attempts) == raise # "" /\ attempts = 0

\* Lines 444 to 447: the download is tried again when the first try raised
\* ServerError.
RetriesDownload(raise, attempts) == raise = "ServerError" /\ attempts = 0

\* _GetLocked, lines 443 to 447: the download, tried again once after a
\* ServerError.  What a download that succeeds brings is up to the bucket.
\* cs_local.cp keeps what every call of _RunCommand raised ("" for none).
GetLocked_Cp ==
  /\ cs_pc = "cp"
  /\ \E result \in GsutilResults, content \in Contents :
       LET r == _RunCommand(<<"cp", "url", "partial_download_path">>,
                            environ, platform, result)
           tried == [cs_local EXCEPT !.attempts = @ + 1,
                                     !.cp = Append(@, r.raise)]
       IN /\ popen' = popen \o r.started
          /\ cs_local' = tried
          /\ IF r.raise = ""
             THEN /\ files' = [files EXCEPT !.partial = <<content>>]
                  /\ cs_pc' = "move"
                  /\ UNCHANGED cs_ret
             ELSE IF RetriesDownload(r.raise, cs_local.attempts)
             THEN UNCHANGED <<files, cs_pc, cs_ret>>
             ELSE /\ cs_ret' = [kind |-> "raise", value |-> r.raise]
                  /\ cs_pc' = "finally"
                  /\ UNCHANGED files
  /\ UNCHANGED <<gen_vars, lock_vars, environ, platform, cs_call>>

\* _GetLocked, line 448: the download is moved to local_path.
GetLocked_Move ==
  /\ cs_pc = "move"
  /\ files' = [files EXCEPT !.file = files.partial, !.partial = <<>>]
  /\ cs_pc' = "finally"
  /\ UNCHANGED <<gen_vars, lock_vars, environ, platform, popen, cs_call, cs_local, cs_ret>>

\* _GetLocked, lines 449 to 451: the temporary file is removed if it is
\* still there; an exception of the download goes on to the caller.
GetLocked_Finally ==
  /\ cs_pc = "finally"
  /\ IF cs_ret.kind = "raise"
     THEN CsExit("raise", cs_ret.value, [files EXCEPT !.partial = <<>>])
     ELSE /\ files' = [files EXCEPT !.partial = <<>>]
          /\ cs_pc' = "verify"
          /\ UNCHANGED cs_ret
  /\ UNCHANGED <<gen_vars, lock_vars, environ, platform, popen, cs_call, cs_local>>

\* Verified without the comparison of line 584.
Verified_Always(f, expected_hash) == TRUE

\* Line 584: the binary that was fetched has the expected hash.
Verified(f, expected_hash) == CalculateHash(f.file[1]) = expected_hash

\* GetIfChanged, lines 584 to 591.
GetIfChanged_Verify ==
  /\ cs_pc = "verify"
  /\ IF ~Verified(files, cs_local.expected_hash)
     THEN CsExit("raise", "RuntimeError", [files EXCEPT !.fetchts = <<>>])
     ELSE CsExit("return", "True", files)
  /\ UNCHANGED <<gen_vars, lock_vars, environ, platform, popen, cs_call, cs_local>>

\* The commands _RunCommand is called with.
Commands ==
  {<<"help">>, <<"hash", "file_path">>, <<"version">>,
   <<"ls", "gs://bucket">>, <<"cp", "gs://bucket/path", "local_path">>,
   <<"mv", "gs://bucket1/path", "gs://bucket2/path">>,
   <<"rm", "gs://bucket/path">>}

NoFiles ==
  [file |-> <<>>, sha1 |-> <<>>, fetchts |-> <<>>, partial |-> <<>>,
   pseudo_lock |-> FALSE]

\* _RunCommand is called with a command.
InitRunCommand ==
  /\ files = NoFiles
  /\ cs_pc = "_RunCommand"
  /\ \E args \in Commands : cs_call = [op |-> "_RunCommand", args |-> args]

\* GetIfChanged is called on a file_path, with or without a binary, a hash
\* file and a file of the last fetch.
InitGetIfChanged ==
  /\ \E file \in {<<>>} \cup {<<c>> : c \in Contents},
        sha1 \in {<<>>} \cup {<<[text |-> t, mtime |-> m]>> :
                                t \in HashTexts, m \in Times},
        fetchts \in {<<>>, <<"">>} \cup {<<Str(n)>> : n \in Times} :
       files = [NoFiles EXCEPT !.file = file, !.sha1 = sha1,
                               !.fetchts = fetchts]
  /\ cs_pc = "GetIfChanged"
  /\ cs_call = [op |-> "GetIfChanged", before |-> files]

InitCloud ==
  /\ NoGenerator
  /\ NoFileLock
  /\ environ \in Environs
  /\ platform \in [cros : BOOLEAN, swarming : BOOLEAN]
  /\ popen = <<>>
  /\ cs_local = [expected_hash |-> "", attempts |-> 0, cp |-> <<>>]
  /\ cs_ret = [kind |-> "", value |-> ""]
  /\ InitRunCommand \/ InitGetIfChanged

NextCloud ==
  \/ Call_RunCommand
  \/ FileLock_Enter
  \/ GetIfChanged_HashPath
  \/ GetIfChanged_FetchTs
  \/ GetIfChanged_WriteFetchTs
  \/ GetIfChanged_Compare
  \/ GetLocked_Enter
  \/ GetLocked_Cp
  \/ GetLocked_Move
  \/ GetLocked_Finally
  \/ GetIfChanged_Verify

SpecCloud == InitCloud /\ [][NextCloud]_vars

(***************************************************************************)
(* cloud_storage.py: _FileLock, _AttemptPseudoLockAcquisition and          *)
(* _AttemptPseudoLockRelease, run by several processes on one base path.   *)
(* py_utils.WaitFor calls an attempt again until it returns True, or       *)
(* raises when the time is over.                                           *)
(***************************************************************************)
other_vars ==
  <<gen_vars, environ, platform, files, popen, cs_call, cs_pc, cs_local,
    cs_ret>>

\* GlobalLockFree without the lock on the global lock file.
GlobalLockFree_Unguarded(holder) == TRUE

\* Lines 384 and 412: lock.FileLock(global_file, LOCK_EX | LOCK_NB) succeeds
\* when no process holds the lock.
GlobalLockFree(holder) == holder = 0

\* The file open(pseudo_lock_path, 'w') creates when there is none: one
\* that is neither at the path nor open in any process.
NewInode ==
  CHOOSE i \in Inodes :
    /\ i # pseudo_lock_path
    /\ \A p \in Procs : pseudo_lock_fd[p] # i
    /\ \A j \in Inodes :
         (j # pseudo_lock_path /\ \A p \in Procs : pseudo_lock_fd[p] # j)
           => i <= j

At(p, label) == lock_pc[p] = label

Goto(p, label) == lock_pc' = [lock_pc EXCEPT ![p] = label]

\* _FileLock, lines 340 to 362: the process starts to wait for the lock.
FileLock_Start(p) ==
  /\ At(p, "idle")
  /\ Goto(p, "acquire")
  /\ pseudo_lock_fd_return' = [pseudo_lock_fd_return EXCEPT ![p] = <<>>]
  /\ attempt_ret' = [attempt_ret EXCEPT ![p] = ""]
  /\ body_exit' = [body_exit EXCEPT ![p] = ""]
  /\ UNCHANGED <<other_vars, pseudo_lock_fd, global_file, pseudo_lock_path,
                 file_lock>>

\* _AttemptPseudoLockAcquisition, lines 383 and 384: the global lock is
\* taken.
Acquisition_TakeGlobal(p) ==
  /\ At(p, "acquire")
  /\ GlobalLockFree(global_file)
  /\ global_file' = p
  /\ Goto(p, "open")
  /\ attempt_ret' = [attempt_ret EXCEPT ![p] = ""]
  /\ UNCHANGED <<pseudo_lock_fd_return, body_exit>>
  /\ UNCHANGED <<other_vars, pseudo_lock_fd, pseudo_lock_path, file_lock>>

\* _AttemptPseudoLockAcquisition, lines 384 and 393 to 398: the global lock
\* is held by another process; the attempt returns False and WaitFor either
\* calls it again or raises.
Acquisition_GlobalBusy(p) ==
  /\ At(p, "acquire")
  /\ ~GlobalLockFree(global_file)
  /\ Goto(p, "acquire") \/ Goto(p, "acquisition_timed_out")
  /\ attempt_ret' = [attempt_ret EXCEPT ![p] = "False"]
  /\ UNCHANGED <<pseudo_lock_fd_return, body_exit>>
  /\ UNCHANGED <<other_vars, pseudo_lock_fd, global_file, pseudo_lock_path,
                 file_lock>>

\* Line 389: the pseudo lock file is opened, and created if there is none.
Acquisition_Open(p) ==
  /\ At(p, "open")
  /\ LET inode == IF pseudo_lock_path = 0 THEN NewInode ELSE pseudo_lock_path
     IN /\ pseudo_lock_path' = inode
        /\ pseudo_lock_fd' = [pseudo_lock_fd EXCEPT ![p] = inode]
  /\ Goto(p, "flock")
  /\ UNCHANGED <<pseudo_lock_fd_return, attempt_ret, body_exit>>
  /\ UNCHANGED <<other_vars, global_file, file_lock>>

\* Acquisition_Close that leaves the descriptor open.
Acquisition_Close_Leak(p) ==
  /\ At(p, "close")
  /\ Goto(p, "acquire") \/ Goto(p, "acquisition_timed_out")
  /\ attempt_ret' = [attempt_ret EXCEPT ![p] = "False"]
  /\ UNCHANGED <<pseudo_lock_fd_return, body_exit>>
  /\ UNCHANGED <<other_vars, pseudo_lock_fd, global_file, pseudo_lock_path,
                 file_lock>>

\* Lines 389 and 393 to 398: open raises IOError; no descriptor was opened,
\* the global lock is released and the attempt returns False; WaitFor either
\* calls it again or raises.
Acquisition_OpenFails(p) ==
  /\ At(p, "open")
  /\ global_file' = IF global_file = p THEN 0 ELSE global_file
  /\ Goto(p, "acquire") \/ Goto(p, "acquisition_timed_out")
  /\ attempt_ret' = [attempt_ret EXCEPT ![p] = "False"]
  /\ UNCHANGED <<pseudo_lock_fd_return, body_exit>>
  /\ UNCHANGED <<other_vars, pseudo_lock_fd, pseudo_lock_path, file_lock>>

\* Lines 390 to 392: the lock on the file is free; it is taken, the global
\* lock is released and the attempt returns True: the body of _FileLock
\* runs.
Acquisition_Locked(p) ==
  /\ At(p, "flock")
  /\ file_lock[pseudo_lock_fd[p]] = 0
  /\ file_lock' = [file_lock EXCEPT ![pseudo_lock_fd[p]] = p]
  /\ global_file' = IF global_file = p THEN 0 ELSE global_file
  /\ Goto(p, "locked")
  /\ pseudo_lock_fd_return' =
       [pseudo_lock_fd_return EXCEPT
          ![p] = Append(pseudo_lock_fd_return[p], pseudo_lock_fd[p])]
  /\ attempt_ret' = [attempt_ret EXCEPT ![p] = "True"]
  /\ UNCHANGED <<body_exit>>
  /\ UNCHANGED <<other_vars, pseudo_lock_fd, pseudo_lock_path>>

\* Acquisition_Refused with a lock request that waits: the process stays
\* where it is until the lock on the file is free.
Acquisition_Blocks(p) ==
  /\ At(p, "flock")
  /\ file_lock[pseudo_lock_fd[p]] # 0
  /\ UNCHANGED vars

\* Lines 390 and 393: the lock on the file is held; LockException leaves the
\* with statements, which releases the global lock.
Acquisition_Refused(p) ==
  /\ At(p, "flock")
  /\ file_lock[pseudo_lock_fd[p]] # 0
  /\ global_file' = IF global_file = p THEN 0 ELSE global_file
  /\ Goto(p, "close")
  /\ UNCHANGED <<pseudo_lock_fd_return, attempt_ret, body_exit>>
  /\ UNCHANGED <<other_vars, pseudo_lock_fd, pseudo_lock_path, file_lock>>

\* Lines 396 to 398: the descriptor is closed and the attempt returns
\* False; WaitFor either calls it again or raises.
Acquisition_Close(p) ==
  /\ At(p, "close")
  /\ pseudo_lock_fd' = [pseudo_lock_fd EXCEPT ![p] = 0]
  /\ Goto(p, "acquire") \/ Goto(p, "acquisition_timed_out")
  /\ attempt_ret' = [attempt_ret EXCEPT ![p] = "False"]
  /\ UNCHANGED <<pseudo_lock_fd_return, body_exit>>
  /\ UNCHANGED <<other_vars, global_file, pseudo_lock_path, file_lock>>

\* _FileLock, lines 365 to 369: the body ends and the release begins.
FileLock_Finally(p) ==
  /\ At(p, "locked")
  /\ Goto(p, "release")
  /\ \E exit \in {"returned", "raised"} :
       body_exit' = [body_exit EXCEPT ![p] = exit]
  /\ UNCHANGED <<pseudo_lock_fd_return, attempt_ret>>
  /\ UNCHANGED <<other_vars, pseudo_lock_fd, global_file, pseudo_lock_path,
                 file_lock>>

\* _AttemptPseudoLockRelease, lines 411 and 412: the global lock is taken.
Release_TakeGlobal(p) ==
  /\ At(p, "release")
  /\ GlobalLockFree(global_file)
  /\ global_file' = p
  /\ Goto(p, "unlock")
  /\ UNCHANGED <<pseudo_lock_fd_return, attempt_ret, body_exit>>
  /\ UNCHANGED <<other_vars, pseudo_lock_fd, pseudo_lock_path, file_lock>>

\* Lines 412 and 422 to 425: the global lock is held by another process;
\* the attempt returns False and WaitFor either calls it again or raises,
\* and then _FileLock is left with the lock still held.
Release_GlobalBusy(p) ==
  /\ At(p, "release")
  /\ ~GlobalLockFree(global_file)
  /\ Goto(p, "release") \/ Goto(p, "release_timed_out")
  /\ UNCHANGED <<pseudo_lock_fd_return, attempt_ret, body_exit>>
  /\ UNCHANGED <<other_vars, pseudo_lock_fd, global_file, pseudo_lock_path,
                 file_lock>>

\* Line 413: the lock on the file is released.
Release_Unlock(p) ==
  /\ At(p, "unlock")
  /\ file_lock' = [file_lock EXCEPT ![pseudo_lock_fd[p]] = 0]
  /\ Goto(p, "fd_close")
  /\ UNCHANGED <<pseudo_lock_fd_return, attempt_ret, body_exit>>
  /\ UNCHANGED <<other_vars, pseudo_lock_fd, global_file, pseudo_lock_path>>

\* Line 414: the descriptor is closed.
Release_Close(p) ==
  /\ At(p, "fd_close")
  /\ pseudo_lock_fd' = [pseudo_lock_fd EXCEPT ![p] = 0]
  /\ Goto(p, "remove")
  /\ UNCHANGED <<pseudo_lock_fd_return, attempt_ret, body_exit>>
  /\ UNCHANGED <<other_vars, global_file, pseudo_lock_path, file_lock>>

\* Lines 415 to 421: the file at the path is removed, if there is one; the
\* global lock is released and the attempt returns True.
Release_Remove(p) ==
  /\ At(p, "remove")
  /\ pseudo_lock_path' = 0
  /\ global_file' = IF global_file = p THEN 0 ELSE global_file
  /\ Goto(p, "idle")
  /\ UNCHANGED <<pseudo_lock_fd_return, attempt_ret, body_exit>>
  /\ UNCHANGED <<other_vars, pseudo_lock_fd, file_lock>>

\* After a release that timed out the descriptor is closed when the file
\* object is collected, which releases its lock on the file.
Release_Collected(p) ==
  /\ At(p, "release_timed_out")
  /\ file_lock' = [file_lock EXCEPT ![pseudo_lock_fd[p]] = 0]
  /\ pseudo_lock_fd' = [pseudo_lock_fd EXCEPT ![p] = 0]
  /\ Goto(p, "idle")
  /\ UNCHANGED <<pseudo_lock_fd_return, attempt_ret, body_exit>>
  /\ UNCHANGED <<other_vars, global_file, pseudo_lock_path>>

\* After an acquisition that timed out the caller may call _FileLock again.
Acquisition_TimedOut(p) ==
  /\ At(p, "acquisition_timed_out")
  /\ Goto(p, "idle")
  /\ UNCHANGED <<pseudo_lock_fd_return, attempt_ret, body_exit>>
  /\ UNCHANGED <<other_vars, pseudo_lock_fd, global_file, pseudo_lock_path,
                 file_lock>>

InitLock ==
  /\ NoGenerator
  /\ environ = <<>>
  /\ platform = [cros |-> FALSE, swarming |-> FALSE]
  /\ files = [file |-> <<>>, sha1 |-> <<>>, fetchts |-> <<>>,
              partial |-> <<>>, pseudo_lock |-> FALSE]
  /\ popen = <<>>
  /\ cs_call = [op |-> "_FileLock"]
  /\ cs_pc = ""
  /\ cs_local = [expected_hash |-> "", attempts |-> 0, cp |-> <<>>]
  /\ cs_ret = [kind |-> "", value |-> ""]
  /\ NoFileLock

NextLock ==
  \E p \in Procs :
    \/ FileLock_Start(p)
    \/ Acquisition_TakeGlobal(p)
    \/ Acquisition_GlobalBusy(p)
    \/ Acquisition_Open(p)
    \/ Acquisition_OpenFails(p)
    \/ Acquisition_Locked(p)
    \/ Acquisition_Refused(p)
    \/ Acquisition_Close(p)
    \/ FileLock_Finally(p)
    \/ Release_TakeGlobal(p)
    \/ Release_GlobalBusy(p)
    \/ Release_Unlock(p)
    \/ Release_Close(p)
    \/ Release_Remove(p)
    \/ Release_Collected(p)
    \/ Acquisition_TimedOut(p)

SpecLock == InitLock /\ [][NextLock]_vars

\* The steps a process takes between taking the global lock and leaving it
\* (lines 384 to 393 and 412 to 421): straight-line code whose calls all
\* return, so that a process that can take one of them does.
GuardedStep(p) ==
  \/ Acquisition_Open(p)
  \/ Acquisition_OpenFails(p)
  \/ Acquisition_Locked(p)
  \/ Acquisition_Refused(p)
  \/ Release_Unlock(p)
  \/ Release_Close(p)
  \/ Release_Remove(p)

SpecLockFair == SpecLock /\ \A p \in Procs : WF_vars(GuardedStep(p))

(***************************************************************************)
(* The REF graph of a namespace, stated without the traversal.             *)
(***************************************************************************)
\* The types of the namespace that a REF property of t names.
LocalRefs(namespace, t) ==
  {d \in Range(namespace.types) :
     \E i \in 1..Len(t.properties) :
       /\ t.properties[i].type_.property_type = "REF"
       /\ t.properties[i].type_.ref_type = d.name}

RECURSIVE ReachableFrom(_, _)
ReachableFrom(namespace, set) ==
  LET more == set \cup UNION {LocalRefs(namespace, t) : t \in set}
  IN IF more = set THEN set ELSE ReachableFrom(namespace, more)

\* The types reachable from t by a chain of one or more REF properties.
Reachable(namespace, t) == ReachableFrom(namespace, LocalRefs(namespace, t))

HasCycle(namespace) ==
  \E t \in Range(namespace.types) : t \in Reachable(namespace, t)

Positions(seq, x) == {i \in 1..Len(seq) : seq[i] = x}

Before(seq, x, y) ==
  /\ Positions(seq, x) # {}
  /\ Positions(seq, y) # {}
  /\ \A i \in Positions(seq, x) : \A j \in Positions(seq, y) : i < j

StructLine(type_) ==
  Line("struct", Classname(StripNamespace(type_.name)), <<>>)

OrderReturned == pc \in {"after_types", "done"} /\ ns.types # <<>>

TypeOfName(namespace, name) ==
  CHOOSE t \in Range(namespace.types) : t.name = name

NoDuplicates(seq) ==
  \A i \in 1..Len(seq) : \A j \in 1..Len(seq) : seq[i] = seq[j] => i = j

\* C4: the order under construction never holds a type twice, and the order
\* returned holds every type of the namespace, and nothing else.
C4_OrderIsPermutation ==
  /\ NoDuplicates(dependency_order)
  /\ Range(dependency_order) \subseteq Range(ns.types)
  /\ OrderReturned =>
       /\ Range(dependency_order) = Range(ns.types)
       /\ Len(dependency_order) = Len(ns.types)

\* An order has been returned for a namespace in which a type is met a
\* second time after it was finished: two types refer to a third.
C4_Witness ==
  /\ pc = "done"
  /\ Len(ns.types) >= 3
  /\ ns.types[3] \in LocalRefs(ns, ns.types[1])
  /\ ns.types[3] \in LocalRefs(ns, ns.types[2])
  /\ dependency_order # ns.types

(***************************************************************************)
(* The sections of the generated text.                                     *)
(***************************************************************************)
SectionTitles == <<"Properties", "Types", "Manifest Keys", "Functions", "Events">>

\* The collection of the namespace a section is written for.
SectionCollection(namespace, title) ==
  CASE title = "Properties" -> namespace.properties
    [] title = "Types" -> namespace.types
    [] title = "Manifest Keys" -> namespace.manifest_keys
    [] title = "Functions" -> namespace.functions
    [] title = "Events" -> namespace.events

SectionLine(title) == Line("section", title, <<>>)

\* The titles of the section comments of a text, in the order of the text.
TitlesOf(code) ==
  LET sections == SelectSeq(code, LAMBDA line : line.t = "section")
  IN [i \in 1..Len(sections) |-> sections[i].n]

Rank(title) == CHOOSE r \in 1..Len(SectionTitles) : SectionTitles[r] = title

\* The lines of a section: from its comment to the next section comment,
\* or to the end of the text.
SectionBody(code, title) ==
  LET start == CHOOSE i \in 1..Len(code) : code[i] = SectionLine(title)
      later == {j \in (start + 1)..Len(code) : code[j].t = "section"}
      end == IF later = {} THEN Len(code) + 1
             ELSE CHOOSE j \in later : \A k \in later : j <= k
  IN SubSeq(code, start + 1, end - 1)

\* The names of the scopes a section opens, Results scopes apart.
ScopesOf(code) ==
  LET scopes == SelectSeq(code, LAMBDA line :
                            line.t = "namespace" /\ line.n # "Results")
  IN [i \in 1..Len(scopes) |-> scopes[i].n]

StructsOf(code) ==
  LET structs == SelectSeq(code, LAMBDA line :
                             line.t = "struct" /\ line.n # "Params")
  IN [i \in 1..Len(structs) |-> structs[i].n]

\* The scope a function or an event is declared in.
ScopeName(id) ==
  CASE id = "get" -> "Get"
    [] id = "sendMessage" -> "PassMessage"
    [] id = "set" -> "Set"
    [] id = "onA" -> "OnA"
    [] id = "onB" -> "OnB"
    [] id = "onC" -> "OnC"

\* C5: in the text Generate returns the sections stand in the order
\* properties, types, manifest keys, functions, events; the scopes of the
\* functions and of the events stand in declared order, and the structs of
\* the types in the order of _FieldDependencyOrder.
C5_SectionOrder ==
  pc = "done" =>
    LET titles == TitlesOf(out)
    IN /\ \A i \in 1..Len(titles) : \A j \in 1..Len(titles) :
            i < j => Rank(titles[i]) < Rank(titles[j])
       /\ InSeq("Functions", titles) =>
            ScopesOf(SectionBody(out, "Functions"))
              = [i \in 1..Len(ns.functions) |-> ScopeName(ns.functions[i].name)]
       /\ InSeq("Events", titles) =>
            ScopesOf(SectionBody(out, "Events"))
              = [i \in 1..Len(ns.events) |-> ScopeName(ns.events[i].name)]
       /\ InSeq("Types", titles) =>
            LET objects == SelectSeq(dependency_order,
                                     LAMBDA t : t.property_type = "OBJECT")
            IN StructsOf(SectionBody(out, "Types"))
                 = [i \in 1..Len(objects) |->
                      Classname(StripNamespace(objects[i].name))]

\* A text with all five sections, two functions, two events, and types
\* whose order is not the declared one.
C5_Witness ==
  /\ pc = "done"
  /\ TitlesOf(out) = SectionTitles
  /\ Len(ns.functions) >= 2
  /\ Len(ns.events) >= 2
  /\ Len(dependency_order) >= 2
  /\ dependency_order # ns.types

\* C9: the text Generate returns holds the comment block of a section
\* exactly when the namespace's collection of that section is not empty,
\* and then once: between two lines of slashes.
C9_SectionIffNonEmpty ==
  pc = "done" =>
    \A r \in 1..Len(SectionTitles) :
      LET title == SectionTitles[r]
          at == Positions(out, SectionLine(title))
      IN /\ at # {} <=> SectionCollection(ns, title) # <<>>
         /\ Cardinality(at) <= 1
         /\ \A i \in at : /\ i > 1 /\ out[i - 1].t = "slashes"
                          /\ i < Len(out) /\ out[i + 1].t = "slashes"
         /\ Cardinality(Positions(out, Line("slashes", "", <<>>)))
              = 2 * Len(TitlesOf(out))

\* The text of a namespace with no properties, types, manifest keys,
\* functions or events: the prolog and the epilog, and nothing between.
C9_Witness ==
  /\ pc = "done"
  /\ \A r \in 1..Len(SectionTitles) :
       SectionCollection(ns, SectionTitles[r]) = <<>>
  /\ out = Prolog(Generator(ns)) \o Epilog(Generator(ns))

(***************************************************************************)
(* The declarations of single types.                                       *)
(***************************************************************************)
CalledClassname == Classname(StripNamespace(call.type_.name))

\* The shapes whose declaration opens a block of its own.
OpensBlock(type_) == type_.property_type \in {"ENUM", "OBJECT", "CHOICES"}

\* The names of the structs and enums a text declares, in its order.
DeclaredIn(code) ==
  LET opened == SelectSeq(code, LAMBDA line : line.t \in {"struct", "enum"})
  IN [i \in 1..Len(opened) |-> opened[i].n]

\* C6: the struct of a CHOICES type without functions declares the types of
\* its choices in their order, then, after them all, one optional field per
\* choice, in their order and named after them, and then ends; it declares
\* no field of a property.
C6_ChoicesFanOut ==
  pc = "type_returned" /\ call.type_.property_type = "CHOICES"
                       /\ call.type_.functions = <<>> =>
    LET choices == call.type_.choices
        n == Len(choices)
        declared == SelectSeq(choices, OpensBlock)
        at == Positions(out, Line("comment", "Choices:", <<>>))
    IN /\ Cardinality(at) = 1
       /\ out[1] = Line("struct", CalledClassname, <<>>)
       /\ \A k \in at :
            /\ Len(out) = k + n + 1
            /\ \A i \in 1..n :
                 out[k + i] = Line("choice_field", choices[i].unix_name,
                                   <<"optional">>)
            /\ out[k + n + 1] = Line("end_struct", CalledClassname, <<>>)
            /\ DeclaredIn(SubSeq(out, 2, k - 1))
                 = [i \in 1..Len(declared) |->
                      Classname(StripNamespace(declared[i].name))]
       /\ \A i \in 1..Len(out) : out[i].t # "field"

\* The struct of a CHOICES type with two choices, an enum and an object.
C6_Witness ==
  /\ pc = "type_returned"
  /\ call.type_.property_type = "CHOICES"
  /\ call.type_.functions = <<>>
  /\ Len(call.type_.choices) = 2
  /\ call.type_.choices[1].property_type = "ENUM"
  /\ call.type_.choices[2].property_type = "OBJECT"
  /\ Len(out) > 10

EnumCalled == pc \in {"enum_returned", "enum_raised"}

\* C7: _GenerateEnumDeclaration returns, for every sequence of declared
\* values, the empty one included: the none member set to 0, one member per
\* value in declared order, and one alias of the last value, which is
\* kMaxValue of an enum class when modernised_enums is set and LAST of a
\* plain enum when it is not.
C7_EnumMembers ==
  EnumCalled =>
    LET values == call.type_.enum_values
        n == Len(values)
        modernised == ns.compiler_options.modernised_enums
    IN /\ pc = "enum_returned"
       /\ Len(out) = n + 4
       /\ out[1] = Line("enum", CalledClassname,
                        IF modernised THEN <<"class">> ELSE <<>>)
       /\ out[2] = Line("enum_member", "NONE", <<"0">>)
       /\ \A i \in 1..n :
            out[2 + i] = Line("enum_member", EnumConstant(values[i]), <<>>)
       /\ out[n + 3].t = "enum_member"
       /\ out[n + 3].n = IF modernised THEN "kMaxValue" ELSE "LAST"
       /\ n > 0 => out[n + 3].a = <<EnumConstant(values[n])>>
       /\ out[n + 4].t = "end_enum"

\* The four lines that make a struct move-only, in their order, after the
\* struct line at i and its constructor and destructor.
MoveOnlyAt(code, i) ==
  /\ i + 6 <= Len(code)
  /\ code[i + 3] = Line("copy_ctor_deleted", code[i].n, <<>>)
  /\ code[i + 4] = Line("copy_assign_deleted", code[i].n, <<>>)
  /\ code[i + 5] = Line("move_ctor", code[i].n, <<>>)
  /\ code[i + 6] = Line("move_assign", code[i].n, <<>>)

ObjectOrChoicesCalled ==
  pc = "type_returned" /\ call.type_.property_type \in {"OBJECT", "CHOICES"}

\* C8 as stated: the declaration of every OBJECT or CHOICES type holds the
\* deleted copy operations and the declared move operations, in that order,
\* whether or not the type declares functions.
C8_MoveOnlyAlways ==
  ObjectOrChoicesCalled =>
    \E i \in 1..Len(out) :
      out[i] = Line("struct", CalledClassname, <<>>) /\ MoveOnlyAt(out, i)

\* C8 as amended: the declaration of an OBJECT or CHOICES type without
\* functions opens with its struct, which is move-only, as is the struct of
\* every type declared inside it; a type with functions is declared as the
\* namespace of its functions, with no struct of its own.
C8_MoveOnlyWithoutFunctions ==
  ObjectOrChoicesCalled =>
    /\ call.type_.functions = <<>> =>
         /\ out[1] = Line("struct", CalledClassname, <<>>)
         /\ \A i \in 1..Len(out) :
              out[i].t = "struct" /\ out[i].n # "Params" => MoveOnlyAt(out, i)
    /\ call.type_.functions # <<>> =>
         /\ out[1] = Line("namespace", CalledClassname, <<>>)
         /\ \A i \in 1..Len(out) : out[i].t = "struct" => out[i].n = "Params"

\* The struct of a top-level OBJECT type of every origin, generated with
\* error messages, that declares an object inside it.
C8_Witness ==
  /\ ObjectOrChoicesCalled
  /\ call.type_.property_type = "OBJECT"
  /\ call.type_.functions = <<>>
  /\ call.type_.origin = Origin(TRUE, TRUE, TRUE)
  /\ call.is_toplevel
  /\ ns.compiler_options.generate_error_messages
  /\ \E i \in 1..Len(call.type_.properties) :
       call.type_.properties[i].type_.property_type = "OBJECT"
  /\ Len(StructsOf(out)) >= 2

(***************************************************************************)
(* The dispatch of _GenerateType on the tag of the type.                   *)
(***************************************************************************)
\* The members of PropertyType.
RecognisedShapes ==
  {"INTEGER", "INT64", "DOUBLE", "BOOLEAN", "STRING", "ENUM", "ARRAY", "REF",
   "CHOICES", "OBJECT", "FUNCTION", "BINARY", "ANY"}

TypeCalled == pc \in {"type_returned", "type_raised"}

\* C11: a call of _GenerateType on a type whose tag is no member of
\* PropertyType raises an error; it never returns a declaration, not even
\* an empty one.
C11_UnknownTagFails ==
  TypeCalled /\ call.type_.property_type \notin RecognisedShapes =>
    pc = "type_raised"

FromValueDeprecatedIn(code) ==
  \E i \in 1..Len(code) : code[i].t = "FromValueDeprecated"

\* C12: the factory FromValueDeprecated is declared for types of the types
\* section only: the scope of a function or of an event never declares it,
\* whatever the types of the parameters and of the results are.
C12_DeprecatedFactoryOnlyForTypes ==
  pc \in {"function_returned", "event_returned"} =>
    ~FromValueDeprecatedIn(out)

(***************************************************************************)
(* What Generate leaves alone.                                             *)
(***************************************************************************)
\* C13: no step of Generate or of _FieldDependencyOrder changes the
\* namespace: its types, properties, manifest keys, functions, events and
\* options, and all that they hold, stay as they were passed, in the same
\* order, until the call has returned or failed.
C13_NamespaceUnchanged == [][ns' = ns]_vars

\* Generate has failed on a cycle after the resolver had already put a type
\* of the namespace into its order.
C13_Witness ==
  /\ pc = "failed"
  /\ err.kind = "ValueError"
  /\ Len(ns.types) = 3
  /\ dependency_order = <<ns.types[1]>>

(***************************************************************************)
(* REF properties to types of other namespaces.                            *)
(***************************************************************************)
IsForeignRef(namespace, prop) ==
  /\ prop.type_.property_type = "REF"
  /\ GetNamespace(prop.type_.ref_type) # namespace.name

\* No property of a type of the namespace is a REF into the namespace.
OnlyForeignRefs(namespace) ==
  \A t \in Range(namespace.types) : \A i \in 1..Len(t.properties) :
    t.properties[i].type_.property_type = "REF" =>
      IsForeignRef(namespace, t.properties[i])

\* C14: a REF property to a type of another namespace is not expanded.
\* Every type under expansion is a type of the namespace, reached from the
\* type below it by a REF into the namespace; a lookup that fails is the
\* lookup of a name of the namespace; the circular dependency error is
\* raised on a cycle of REFs inside the namespace only; and a namespace
\* whose REFs all lead outside never fails and is ordered as declared.
C14_ForeignRefsNotExpanded ==
  /\ \A i \in 1..Len(stack) :
       /\ stack[i].type_ \in Range(ns.types)
       /\ i > 1 => /\ stack[i].type_ \in LocalRefs(ns, stack[i - 1].type_)
                   /\ stack[i].path
                        = stack[i - 1].path \o <<stack[i - 1].type_>>
  /\ pc = "failed" /\ err.kind = "KeyError" =>
       GetNamespace(err.names[1]) = ns.name
  /\ pc = "failed" /\ err.kind = "ValueError" => HasCycle(ns)
  /\ OnlyForeignRefs(ns) =>
       /\ pc # "failed"
       /\ dependency_order = Prefix(ns.types, Len(dependency_order))

\* Generate has returned for a namespace of two types that both hold a REF
\* to the type A of another namespace, while the namespace has its own A.
C14_Witness ==
  /\ pc = "done"
  /\ Len(ns.types) >= 2
  /\ \A k \in 1..2 :
       \E i \in 1..Len(ns.types[k].properties) :
         /\ IsForeignRef(ns, ns.types[k].properties[i])
         /\ StripNamespace(ns.types[k].properties[i].type_.ref_type)
              = StripNamespace(ns.types[1].name)
  /\ dependency_order = ns.types

(***************************************************************************)
(* cloud_storage.py: what GetIfChanged and _RunCommand answer.             *)
(***************************************************************************)
GetIfChangedReturned ==
  cs_pc = "done" /\ cs_call.op = "GetIfChanged" /\ cs_ret.kind = "return"

\* The binary was fetched after the hash file was last modified.
FetchedAfterHash(f) ==
  /\ f.fetchts # <<>>
  /\ f.file # <<>>
  /\ ParseFloat(f.fetchts[1]) # <<>>
  /\ ParseFloat(f.fetchts[1])[1] > f.sha1[1].mtime

\* C15: GetIfChanged returns True only after a download of this call has
\* been moved to file_path and the binary there has the hash of the hash
\* file.  It returns False only without a hash file, with a fetch time
\* after the last change of the hash file, or with a local binary of the
\* expected hash, and then the binary at file_path is as it was and no
\* gsutil process was started; without a hash file no file is touched.
C15_GetIfChangedResult ==
  GetIfChangedReturned =>
    LET before == cs_call.before
    IN /\ cs_ret.value \in {"True", "False"}
       /\ cs_ret.value = "True" =>
            /\ before.sha1 # <<>>
            /\ popen # <<>>
            /\ popen[Len(popen)].args[3] = "cp"
            /\ cs_local.attempts \in 1..2
            /\ files.file # <<>>
            /\ CalculateHash(files.file[1]) = ReadHash(before.sha1[1].text)
            /\ IsNetworkIOEnabled(environ)
       /\ cs_ret.value = "False" =>
            /\ files.file = before.file
            /\ files.sha1 = before.sha1
            /\ popen = <<>>
            /\ \/ before.sha1 = <<>>
               \/ FetchedAfterHash(before)
               \/ UpToDate(before, ReadHash(before.sha1[1].text))
            /\ before.sha1 = <<>> => files = before

\* GetIfChanged has returned True after it replaced a binary that did not
\* have the expected hash, and the download was tried twice.
C15_Witness ==
  /\ GetIfChangedReturned
  /\ cs_ret.value = "True"
  /\ cs_call.before.file # <<>>
  /\ files.file # cs_call.before.file
  /\ Len(popen) = 2

RunCommandCalled == cs_pc = "done" /\ cs_call.op = "_RunCommand"

\* C16: with DISABLE_CLOUD_STORAGE_IO set to '1', _RunCommand raises
\* CloudStorageIODisabled and starts no gsutil process for every command
\* but help, hash and version, which still run; with the variable unset or
\* set to any other text no command is refused.
C16_ExemptCommandsRun ==
  RunCommandCalled =>
    LET command == cs_call.args[1]
        refused == cs_ret = [kind |-> "raise",
                             value |-> "CloudStorageIODisabled"]
    IN /\ environ = <<"1">> /\ command \notin ExemptCommands =>
            refused /\ popen = <<>>
       /\ environ = <<"1">> /\ command \in ExemptCommands =>
            ~refused /\ Len(popen) = 1
       /\ environ # <<"1">> => ~refused /\ Len(popen) = 1

(***************************************************************************)
(* The aliases of the types section.                                       *)
(***************************************************************************)
IsAlias(line) == line.t \in {"using_string", "using_vector", "using_list"}

AliasLines(code) == SelectSeq(code, IsAlias)

\* The alias of a type of the namespace that is a string or an array.
AliasOf(type_) ==
  LET classname == Classname(StripNamespace(type_.name))
  IN IF type_.property_type = "STRING"
     THEN Line("using_string", classname, <<>>)
     ELSE IF type_.item_type[1].property_type = "ANY"
     THEN Line("using_list", classname, <<>>)
     ELSE Line("using_vector", classname, <<>>)

FunctionReturned == pc = "function_returned"

ParamsAt(code) == Positions(code, Line("struct", "Params", <<>>))

ResultsAt(code) == Positions(code, Line("namespace", "Results", <<>>))

\* C18: the scope of a function is named after the function, PassMessage
\* standing for SendMessage; it holds one Params struct exactly when the
\* function has parameters and one Results scope exactly when it returns
\* asynchronously, and the Params struct is closed before the Results
\* scope is opened.
C18_FunctionScope ==
  FunctionReturned =>
    LET function == call.function
        scope == ScopeName(function.name)
    IN /\ out[1] = Line("namespace", scope, <<>>)
       /\ out[Len(out)] = Line("end_namespace", scope, <<>>)
       /\ \A i \in 1..Len(out) : out[i].n # "SendMessage"
       /\ Cardinality(ParamsAt(out)) = IF function.params # <<>> THEN 1 ELSE 0
       /\ Cardinality(ResultsAt(out))
            = IF function.returns_async # <<>> THEN 1 ELSE 0
       /\ \A i \in ParamsAt(out) : \A j \in ResultsAt(out) :
            /\ i < j
            /\ \E k \in (i + 1)..(j - 1) :
                 out[k] = Line("end_struct", "Params", <<>>)

\* The scope of sendMessage with two parameters, one of them an object, and
\* an asynchronous return of one parameter.
C18_Witness ==
  /\ FunctionReturned
  /\ call.function.name = "sendMessage"
  /\ Len(call.function.params) = 2
  /\ call.function.params[1].type_.property_type = "OBJECT"
  /\ call.function.returns_async # <<>>
  /\ call.function.returns_async[1].params # <<>>
  /\ out[1].n = "PassMessage"

(***************************************************************************)
(* The nesting of the blocks.                                              *)
(***************************************************************************)
\* The lines written by Sblock (lines 155, 259, 407 and 428) and the lines
\* written by Eblock (lines 179, 364, 426 and 430).
SblockLines == {"enum", "struct", "private"}

EblockLines == {"end_enum", "end_struct", "eblock"}

\* The blocks opened, and the blocks closed, by the first i lines.
Opened(code, i) == Cardinality({j \in 1..i : code[j].t \in SblockLines})

Closed(code, i) == Cardinality({j \in 1..i : code[j].t \in EblockLines})

EmitterReturned ==
  pc \in {"type_returned", "enum_returned", "function_returned",
          "event_returned", "done"}

\* C19: in the Code an emitter returns every block that is opened is
\* closed: no line closes a block that is not open, and after the last
\* line no block is open.
C19_BlocksBalanced ==
  EmitterReturned =>
    /\ \A i \in 1..Len(out) : Closed(out, i) <= Opened(out, i - 1)
    /\ Opened(out, Len(out)) = Closed(out, Len(out))

\* The scope of a function whose Params struct declares an enum and an
\* object: two blocks inside the block of the struct, and the private
\* block after them.
C19_Witness ==
  /\ pc = "function_returned"
  /\ Len(call.function.params) = 2
  /\ call.function.params[1].type_.property_type = "ENUM"
  /\ call.function.params[2].type_.property_type = "OBJECT"
  /\ Opened(out, Len(out)) = 4
  /\ \E i \in 1..Len(out) : Opened(out, i) = Closed(out, i) + 2

(***************************************************************************)
(* The pseudo lock.                                                        *)
(***************************************************************************)
\* The process runs the body of _FileLock, or its release has not yet
\* succeeded: it takes the lock for its own.
InLockedRegion(p) == lock_pc[p] \in {"locked", "release"}

\* C20: at most one process at a time is in the locked region of _FileLock,
\* and the process that is there holds the lock on the file that stands at
\* the pseudo lock path, whatever files were removed and created before.
C20_MutualExclusion ==
  \A p \in Procs :
    InLockedRegion(p) =>
      /\ \A q \in Procs : InLockedRegion(q) => q = p
      /\ pseudo_lock_fd[p] # 0
      /\ pseudo_lock_fd[p] = pseudo_lock_path
      /\ file_lock[pseudo_lock_fd[p]] = p

\* A process holds the pseudo lock on a file created after the first one
\* was removed, while another process has just been refused the lock.
C20_Witness ==
  \E p \in Procs, q \in Procs :
    /\ lock_pc[p] = "locked"
    /\ pseudo_lock_path > 1
    /\ lock_pc[q] = "close"
    /\ pseudo_lock_fd[q] = pseudo_lock_fd[p]

\* The positions between taking the global lock and leaving it.
GuardedPositions == {"open", "flock", "unlock", "fd_close", "remove"}

\* C21: the lock protocol cannot deadlock.  The global lock is held only
\* inside an attempt, and whenever it is held it becomes free again, so that
\* a process that waits to release its pseudo lock finds the global lock
\* free again and again while the others keep trying to acquire.
C21_NoDeadlock ==
  /\ [](\A p \in Procs : global_file = p => lock_pc[p] \in GuardedPositions)
  /\ \A p \in Procs :
       (lock_pc[p] = "release" /\ global_file # 0)
         ~> (lock_pc[p] # "release" \/ global_file = 0)

\* A process waits to release its pseudo lock while another holds the
\* global lock and asks for the lock on the same file.
C21_Witness ==
  \E p \in Procs, q \in Procs :
    /\ lock_pc[p] = "release"
    /\ global_file = q
    /\ lock_pc[q] = "flock"
    /\ pseudo_lock_fd[q] = pseudo_lock_fd[p]
    /\ file_lock[pseudo_lock_fd[p]] = p

\* The process holds the lock on some file.
HoldsFileLock(p) == \E i \in Inodes : file_lock[i] = p

\* The last attempt of the process to acquire has returned and no other has
\* begun: the process is in the body after True, and in WaitFor, or out of
\* it by a timeout, after False.
AttemptReturned(p, value) ==
  /\ attempt_ret[p] = value
  /\ lock_pc[p] \in {"acquire", "acquisition_timed_out", "locked"}

\* C22: an attempt to acquire reports faithfully.  After True the list holds
\* one entry, the descriptor of the lock file, whose lock the process holds;
\* after False the list is as it was (empty), the process holds no lock and
\* has no descriptor open.  The body runs only after True, and every exit
\* from the body, normal or by an exception, leads to the release.
C22_AttemptFaithful ==
  /\ [](\A p \in Procs :
          /\ AttemptReturned(p, "True") =>
               /\ Len(pseudo_lock_fd_return[p]) = 1
               /\ pseudo_lock_fd_return[p][1] = pseudo_lock_fd[p]
               /\ pseudo_lock_fd[p] # 0
               /\ file_lock[pseudo_lock_fd[p]] = p
          /\ AttemptReturned(p, "False") =>
               /\ pseudo_lock_fd_return[p] = <<>>
               /\ ~HoldsFileLock(p)
               /\ pseudo_lock_fd[p] = 0
          /\ (lock_pc[p] \in {"acquire", "acquisition_timed_out"}
                /\ attempt_ret[p] # "")
               => attempt_ret[p] = "False"
          /\ lock_pc[p] = "locked" => attempt_ret[p] = "True"
          /\ body_exit[p] # "" =>
               lock_pc[p] \in {"release", "unlock", "fd_close", "remove",
                               "release_timed_out", "idle"})
  /\ [][\A p \in Procs :
          (lock_pc[p] = "locked" /\ lock_pc'[p] # "locked")
            => (lock_pc'[p] = "release" /\ body_exit'[p] # "")]_vars

\* A process was refused the lock on the file and its attempt has returned
\* False, while the process that holds the lock has left the body by an
\* exception and waits to release.
C22_Witness ==
  \E p \in Procs, q \in Procs :
    /\ AttemptReturned(q, "False")
    /\ lock_pc[q] = "acquire"
    /\ lock_pc[p] = "release"
    /\ body_exit[p] = "raised"
    /\ pseudo_lock_fd_return[p] = <<pseudo_lock_path>>
    /\ global_file = 0

(***************************************************************************)
(* _GetLocked.                                                             *)
(***************************************************************************)
\* What the calls of the download command raised, in order.
Downloads == cs_local.cp

\* _GetLocked has returned or raised.
GetLockedEnded == Downloads # <<>> /\ cs_pc \in {"verify", "done"}

\* C23: _GetLocked runs the download at most twice, the second time only
\* after a ServerError of the first; any other error and a second failure
\* go to the caller.  The file at local_path changes only after a download
\* that succeeded, and the temporary file is gone when _GetLocked ends.
C23_GetLockedDownloads ==
  cs_call.op = "GetIfChanged" =>
    /\ Len(Downloads) <= 2
    /\ Len(Downloads) = 2 => Downloads[1] = "ServerError"
    /\ files.file # cs_call.before.file =>
         (Downloads # <<>> /\ Downloads[Len(Downloads)] = "")
    /\ files.partial # <<>> => cs_pc \in {"cp", "move", "finally"}
    /\ GetLockedEnded =>
         /\ files.partial = <<>>
         /\ Downloads[1] = "ServerError" => Len(Downloads) = 2
         /\ Downloads[Len(Downloads)] # "" =>
              /\ cs_pc = "done"
              /\ cs_ret = [kind |-> "raise",
                           value |-> Downloads[Len(Downloads)]]
              /\ files.file = cs_call.before.file
         /\ Downloads[Len(Downloads)] = "" =>
              /\ files.file # <<>>
              /\ cs_ret.kind = "raise" => cs_ret.value = "RuntimeError"

\* The download failed with ServerError and then with another error: the
\* second error went to the caller, the binary that was there is as it was
\* and the temporary file is gone.
C23_Witness ==
  /\ cs_call.op = "GetIfChanged"
  /\ cs_pc = "done"
  /\ Downloads = <<"ServerError", "NotFoundError">>
  /\ cs_ret = [kind |-> "raise", value |-> "NotFoundError"]
  /\ cs_call.before.file # <<>>
  /\ files.file = cs_call.before.file
  /\ files.partial = <<>>

(***************************************************************************)
(* The end of the traversal.                                               *)
(***************************************************************************)
\* Every REF property to this namespace names a declared type.
Resolved(namespace) ==
  \A t \in Range(namespace.types) :
    \A i \in 1..Len(t.properties) :
      IsLocalRef(Generator(namespace), t.properties[i])
        => TypesNamed(namespace, t.properties[i].type_.ref_type) # <<>>

\* C24: _FieldDependencyOrder terminates on every type map, with or without
\* cycles and self-references: the traversal ends by returning the order or
\* by raising, and when every REF names a declared type the error is the
\* circular dependency error.  The path of an expansion never holds a type
\* twice, nor the type that is being expanded, so the recursion is no deeper
\* than the number of types.
C24_TraversalTerminates ==
  /\ [](/\ Len(stack) <= Len(ns.types) + 1
        /\ \A i \in 1..Len(stack) :
             /\ NoDuplicates(stack[i].path)
             /\ Range(stack[i].path) \subseteq Range(ns.types)
             /\ stack[i].prop > 0 => ~InSeq(stack[i].type_, stack[i].path))
  /\ <>(TraversalReturned \/ pc = "failed")
  /\ [][(pc = "ExpandType" /\ pc' = "failed" /\ Resolved(ns))
          => err'.kind = "ValueError"]_vars

\* The traversal has ended on a type that refers to itself, reached from
\* another type: the circular dependency error was raised.
C24_Witness ==
  /\ pc = "failed"
  /\ stack = <<>>
  /\ err.kind = "ValueError"
  /\ Resolved(ns)
  /\ Len(ns.types) >= 2
  /\ ns.types[2] \in LocalRefs(ns, ns.types[2])
  /\ ns.types[2] \in LocalRefs(ns, ns.types[1])
  /\ ns.types[1] \notin Reachable(ns, ns.types[1])

=============================================================================
